---------------------------- MODULE Spec2Model ----------------------------
(***************************************************************************)
(* PitcherCards: the data-build script (scripts/buildPitcherData.ts), the  *)
(* validation script (scripts/validatePitcherData.ts) and the player route *)
(* (app/api/mlb/player/[id]/route.ts).                                     *)
(*                                                                         *)
(* Strings are sequences of one-character strings, so that trimming, case  *)
(* folding and the regular-expression replacements of the source are       *)
(* computed character by character.  A CSV row is a function from column   *)
(* name to cell text.  A number is a pair <<numerator, denominator>>;      *)
(* NaN is <<0, 0>> and null is <<>>.                                       *)
(***************************************************************************)
EXTENDS Integers, Sequences, FiniteSets, TLC

(***************************************************************************)
(* Characters and strings                                                  *)
(***************************************************************************)
UpperLetters ==
  <<"A","B","C","D","E","F","G","H","I","J","K","L","M",
    "N","O","P","Q","R","S","T","U","V","W","X","Y","Z">>

LowerLetters ==
  <<"a","b","c","d","e","f","g","h","i","j","k","l","m",
    "n","o","p","q","r","s","t","u","v","w","x","y","z">>

Digits == <<"0","1","2","3","4","5","6","7","8","9">>

IndexIn(seq, c) == CHOOSE k \in 1..Len(seq) : seq[k] = c

IsIn(seq, c) == \E k \in 1..Len(seq) : seq[k] = c

IsSpace(c) == c \in {" ", "\t"}

UpperSet == {UpperLetters[k] : k \in 1..26}

LowerSet == {LowerLetters[k] : k \in 1..26}

DigitSet == {Digits[k] : k \in 1..10}

LowerOf == [c \in UpperSet |-> LowerLetters[IndexIn(UpperLetters, c)]]

UpperOf == [c \in LowerSet |-> UpperLetters[IndexIn(LowerLetters, c)]]

LowerCh(c) == IF c \in UpperSet THEN LowerOf[c] ELSE c

UpperCh(c) == IF c \in LowerSet THEN UpperOf[c] ELSE c

toLowerCase(s) == [i \in 1..Len(s) |-> LowerCh(s[i])]

toUpperCase(s) == [i \in 1..Len(s) |-> UpperCh(s[i])]

RECURSIVE trimStart(_)
trimStart(s) == IF s # <<>> /\ IsSpace(Head(s)) THEN trimStart(Tail(s)) ELSE s

RECURSIVE trimEnd(_)
trimEnd(s) ==
  IF s # <<>> /\ IsSpace(s[Len(s)]) THEN trimEnd(SubSeq(s, 1, Len(s) - 1)) ELSE s

trim(s) == trimEnd(trimStart(s))

\* s.replace(/c/g, "") for a set of characters
RECURSIVE removeChars(_, _)
removeChars(s, cs) ==
  IF s = <<>> THEN <<>>
  ELSE IF Head(s) \in cs THEN removeChars(Tail(s), cs)
  ELSE <<Head(s)>> \o removeChars(Tail(s), cs)

\* s.replace(/\s+/g, rep): every maximal run of whitespace becomes rep
RECURSIVE replaceSpaceRuns(_, _)
replaceSpaceRuns(s, rep) ==
  IF s = <<>> THEN <<>>
  ELSE IF IsSpace(Head(s)) THEN <<rep>> \o replaceSpaceRuns(trimStart(s), rep)
  ELSE <<Head(s)>> \o replaceSpaceRuns(Tail(s), rep)

IsKeyChar(c) == c \in LowerSet \/ c \in DigitSet \/ c = "_"

RECURSIVE keepKeyChars(_)
keepKeyChars(s) ==
  IF s = <<>> THEN <<>>
  ELSE IF IsKeyChar(Head(s)) THEN <<Head(s)>> \o keepKeyChars(Tail(s))
  ELSE keepKeyChars(Tail(s))

normalizeKey(s) == keepKeyChars(replaceSpaceRuns(toLowerCase(trim(s)), "_"))

normalizeName(name) ==
  LET bare == removeChars(toLowerCase(name), {".", "'"})
  IN trim(replaceSpaceRuns([i \in 1..Len(bare) |-> IF bare[i] = "-" THEN " " ELSE bare[i]], " "))

(***************************************************************************)
(* Numbers                                                                 *)
(***************************************************************************)
NaN == <<0, 0>>

Null == <<>>

IsFinite(n) == Len(n) = 2 /\ n[2] # 0

RECURSIVE Gcd(_, _)
Gcd(a, b) == IF b = 0 THEN a ELSE Gcd(b, a % b)

\* the quotient a / b of two integers, b > 0, a >= 0, in lowest terms
Quot(a, b) == <<a \div Gcd(a, b), b \div Gcd(a, b)>>

RECURSIVE DecimalValue(_)
DecimalValue(s) ==
  IF s = <<>> THEN 0
  ELSE 10 * DecimalValue(SubSeq(s, 1, Len(s) - 1)) + (IndexIn(Digits, s[Len(s)]) - 1)

AllDigits(s) == s # <<>> /\ \A i \in 1..Len(s) : s[i] \in DigitSet

\* Number(s) on the cell texts of the model: a run of decimal digits is its
\* value, any other text is not a number.
toNum(v) ==
  LET s == trim(v) IN
    IF s = <<>> \/ toLowerCase(s) = <<"n","u","l","l">> \/ toLowerCase(s) = <<"n","a","n">>
    THEN NaN
    ELSE IF AllDigits(s) THEN <<DecimalValue(s), 1>> ELSE NaN

numOrNull(v) == IF IsFinite(toNum(v)) THEN toNum(v) ELSE Null

(***************************************************************************)
(* Pitch codes                                                             *)
(***************************************************************************)
ALL_PITCH_CODES ==
  << <<"F","F">>, <<"S","I">>, <<"F","C">>, <<"C","H">>, <<"F","S">>, <<"F","O">>,
     <<"S","C">>, <<"C","U">>, <<"K","C">>, <<"C","S">>, <<"S","L">>, <<"S","T">>,
     <<"S","V">> >>

PitchCodes == {ALL_PITCH_CODES[i] : i \in 1..Len(ALL_PITCH_CODES)}

\* the code looked up as the CSV spells it
safePitchCodeAlt(code) ==
  IF code \in PitchCodes THEN code ELSE <<>>

\* <<>> stands for the null result
safePitchCode(code) ==
  IF toUpperCase(trim(code)) \in PitchCodes THEN toUpperCase(trim(code)) ELSE <<>>

(***************************************************************************)
(* Maps and CSV files                                                      *)
(***************************************************************************)
EmptyMap == <<>>

MapSet(m, k, v) == [x \in (DOMAIN m) \cup {k} |-> IF x = k THEN v ELSE m[x]]

Range(seq) == {seq[i] : i \in 1..Len(seq)}

\* (r as any)[key] ?? "" : a column the row does not have reads as ""
Cell(r, key) == IF key \in DOMAIN r THEN r[key] ELSE <<>>

\* the row object papaparse builds with header: true
Row(header, cells) == [k \in Range(header) |-> cells[IndexIn(header, k)]]

RECURSIVE LineSize(_)
LineSize(cells) ==
  IF cells = <<>> THEN 0 ELSE Len(Head(cells)) + 1 + LineSize(Tail(cells))

RECURSIVE LinesSize(_, _)
LinesSize(header, rows) ==
  IF rows = <<>> THEN 0
  ELSE LineSize([i \in 1..Len(header) |-> Head(rows)[header[i]]])
       + LinesSize(header, Tail(rows))

\* fs.statSync(file).size: every cell, a comma or newline after each
statSize(file) == LineSize(file.header) + LinesSize(file.header, file.rows)

\* the position of the last matching key, not of the first
findIndexAlt(nk, names) ==
  IF \E i \in 1..Len(nk) : nk[i] \in names
  THEN CHOOSE i \in 1..Len(nk) : nk[i] \in names /\ \A j \in (i + 1)..Len(nk) : nk[j] \notin names
  ELSE 0

\* nk.findIndex((k) => names.includes(k)): the position of the first
\* normalized key that is in names, 0 when there is none
findIndex(nk, names) ==
  IF \E i \in 1..Len(nk) : nk[i] \in names
  THEN CHOOSE i \in 1..Len(nk) : nk[i] \in names /\ \A j \in 1..(i - 1) : nk[j] \notin names
  ELSE 0

\* keys.map(normalizeKey)
normalizedKeys(keys) == [i \in 1..Len(keys) |-> normalizeKey(keys[i])]

SavantIdNames ==
  {<<"p","l","a","y","e","r","_","i","d">>, <<"p","i","t","c","h","e","r","_","i","d">>, <<"m","l","b","a","m","_","i","d">>, <<"i","d">>, <<"e","n","t","i","t","y","_","i","d">>}

SavantNameNames ==
  {<<"p","l","a","y","e","r","_","n","a","m","e">>, <<"p","i","t","c","h","e","r","_","n","a","m","e">>, <<"n","a","m","e">>, <<"p","l","a","y","e","r">>}

savantIdKey(keys) ==
  LET at == findIndex(normalizedKeys(keys), SavantIdNames)
  IN IF at = 0 THEN <<"p","l","a","y","e","r","_","i","d">> ELSE keys[at]

\* <<>> stands for the null nameKey
savantNameKey(keys) ==
  LET at == findIndex(normalizedKeys(keys), SavantNameNames)
  IN IF at = 0 THEN <<>> ELSE keys[at]

\* The metrics of one Savant row.  The script copies pitches, whiffs, swings,
\* swing_miss_percent, barrels_per_pa_percent and hardhit_percent with the same
\* numOrNull call; the model carries spin_rate and arm_angle.
enrichEntry(r) ==
  [spin_rate |-> numOrNull(Cell(r, <<"s","p","i","n","_","r","a","t","e">>)),
   arm_angle |-> numOrNull(Cell(r, <<"a","r","m","_","a","n","g","l","e">>))]

\* the row loop keeping the first entry of an id and of a name, not the last
enrichRowAlt(acc, code, idKey, nameKey, r) ==
  LET pitcherId == trim(Cell(r, idKey))
      nm == trim(Cell(r, nameKey))
      names == IF nameKey # <<>> /\ nm # <<>> /\ normalizeName(nm) \notin DOMAIN acc.nameToId
               THEN MapSet(acc.nameToId, normalizeName(nm), pitcherId)
               ELSE acc.nameToId
      perCode == IF pitcherId \in DOMAIN acc.enrich THEN acc.enrich[pitcherId] ELSE EmptyMap
  IN IF pitcherId = <<>> THEN acc
     ELSE [enrich |-> MapSet(acc.enrich, pitcherId,
                             IF code \in DOMAIN perCode THEN perCode
                             ELSE MapSet(perCode, code, enrichEntry(r))),
           nameToId |-> names]

\* one iteration of the row loop of buildEnrichmentMap; acc = [enrich, nameToId]
enrichRow(acc, code, idKey, nameKey, r) ==
  LET pitcherId == trim(Cell(r, idKey))
      nm == trim(Cell(r, nameKey))
      names == IF nameKey # <<>> /\ nm # <<>>
               THEN MapSet(acc.nameToId, normalizeName(nm), pitcherId)
               ELSE acc.nameToId
      perCode == IF pitcherId \in DOMAIN acc.enrich THEN acc.enrich[pitcherId] ELSE EmptyMap
  IN IF pitcherId = <<>> THEN acc
     ELSE [enrich |-> MapSet(acc.enrich, pitcherId, MapSet(perCode, code, enrichEntry(r))),
           nameToId |-> names]

RECURSIVE enrichRows(_, _, _, _, _)
enrichRows(acc, code, idKey, nameKey, rows) ==
  IF rows = <<>> THEN acc
  ELSE enrichRows(enrichRow(acc, code, idKey, nameKey, Head(rows)),
                  code, idKey, nameKey, Tail(rows))

\* one iteration of the code loop of buildEnrichmentMap; dir maps a pitch code
\* to the file guessSavantFileForCode finds for it
enrichFile(acc, dir, code) ==
  IF code \notin DOMAIN dir THEN acc
  ELSE IF statSize(dir[code]) < 10 THEN acc
  ELSE IF dir[code].rows = <<>> THEN acc
  ELSE LET idKey == savantIdKey(dir[code].header)
           nameKey == savantNameKey(dir[code].header)
       IN enrichRows(acc, code, idKey, nameKey, dir[code].rows)

RECURSIVE enrichCodes(_, _, _)
enrichCodes(acc, dir, codes) ==
  IF codes = <<>> THEN acc
  ELSE enrichCodes(enrichFile(acc, dir, Head(codes)), dir, Tail(codes))

buildEnrichmentMap(dir) ==
  enrichCodes([enrich |-> EmptyMap, nameToId |-> EmptyMap], dir, ALL_PITCH_CODES)

(***************************************************************************)
(* active-spin.csv and the 2025 arm-angle fallback                         *)
(***************************************************************************)
ACTIVE_SPIN_PITCHNAME_TO_CODE ==
  [n \in {<<"f","o","u","r","s","e","a","m">>, <<"f","o","u","r","_","s","e","a","m">>, <<"4","s","e","a","m">>, <<"f","f">>, <<"s","i","n","k","e","r">>, <<"s","i">>, <<"c","u","t","t","e","r">>,
          <<"f","c">>, <<"c","h","a","n","g","e","u","p">>, <<"c","h">>, <<"s","p","l","i","t","t","e","r">>, <<"f","s">>, <<"f","o","r","k","b","a","l","l">>, <<"f","o">>,
          <<"s","c","r","e","w","b","a","l","l">>, <<"s","c">>, <<"c","u","r","v","e">>, <<"c","u","r","v","e","b","a","l","l">>, <<"c","u">>, <<"k","n","u","c","k","l","e","c","u","r","v","e">>,
          <<"k","n","u","c","k","l","e","_","c","u","r","v","e">>, <<"k","c">>, <<"s","l","o","w","c","u","r","v","e">>, <<"s","l","o","w","_","c","u","r","v","e">>, <<"c","s">>, <<"s","l","i","d","e","r">>,
          <<"s","l">>, <<"s","w","e","e","p","e","r">>, <<"s","t">>, <<"s","l","u","r","v","e">>, <<"s","v">>} |->
     CASE n \in {<<"f","o","u","r","s","e","a","m">>, <<"f","o","u","r","_","s","e","a","m">>, <<"4","s","e","a","m">>, <<"f","f">>} -> <<"F","F">>
       [] n \in {<<"s","i","n","k","e","r">>, <<"s","i">>} -> <<"S","I">>
       [] n \in {<<"c","u","t","t","e","r">>, <<"f","c">>} -> <<"F","C">>
       [] n \in {<<"c","h","a","n","g","e","u","p">>, <<"c","h">>} -> <<"C","H">>
       [] n \in {<<"s","p","l","i","t","t","e","r">>, <<"f","s">>} -> <<"F","S">>
       [] n \in {<<"f","o","r","k","b","a","l","l">>, <<"f","o">>} -> <<"F","O">>
       [] n \in {<<"s","c","r","e","w","b","a","l","l">>, <<"s","c">>} -> <<"S","C">>
       [] n \in {<<"c","u","r","v","e">>, <<"c","u","r","v","e","b","a","l","l">>, <<"c","u">>} -> <<"C","U">>
       [] n \in {<<"k","n","u","c","k","l","e","c","u","r","v","e">>, <<"k","n","u","c","k","l","e","_","c","u","r","v","e">>, <<"k","c">>} -> <<"K","C">>
       [] n \in {<<"s","l","o","w","c","u","r","v","e">>, <<"s","l","o","w","_","c","u","r","v","e">>, <<"c","s">>} -> <<"C","S">>
       [] n \in {<<"s","l","i","d","e","r">>, <<"s","l">>} -> <<"S","L">>
       [] n \in {<<"s","w","e","e","p","e","r">>, <<"s","t">>} -> <<"S","T">>
       [] n \in {<<"s","l","u","r","v","e">>, <<"s","v">>} -> <<"S","V">>]

ActiveSpinIdNames ==
  {<<"p","l","a","y","e","r","_","i","d">>, <<"p","i","t","c","h","e","r","_","i","d">>, <<"m","l","b","a","m","_","i","d">>, <<"m","l","b","_","i","d">>, <<"i","d">>, <<"e","n","t","i","t","y","_","i","d">>, <<"e","n","t","i","t","y","i","d">>}

ActiveSpinPrefix == <<"a","c","t","i","v","e","_","s","p","i","n","_">>

startsWith(s, p) == Len(s) >= Len(p) /\ SubSeq(s, 1, Len(p)) = p

\* <<>> stands for the null idKey
activeSpinIdKey(keys) ==
  LET at == findIndex(normalizedKeys(keys), ActiveSpinIdNames)
  IN IF at = 0 THEN <<>> ELSE keys[at]

activeCols(keys) ==
  SelectSeq(keys, LAMBDA k : startsWith(normalizeKey(k), ActiveSpinPrefix))

\* the code of an active_spin_ column, <<>> when the pitch name is unknown
activeColCode(col) ==
  LET pitchName == SubSeq(normalizeKey(col), Len(ActiveSpinPrefix) + 1, Len(normalizeKey(col)))
  IN IF pitchName \in DOMAIN ACTIVE_SPIN_PITCHNAME_TO_CODE
     THEN ACTIVE_SPIN_PITCHNAME_TO_CODE[pitchName] ELSE <<>>

\* sums: pitcher id -> code -> [sum, n]
spinCell(sums, pitcherId, r, col) ==
  LET code == activeColCode(col)
      val == numOrNull(Cell(r, col))
      m == IF pitcherId \in DOMAIN sums THEN sums[pitcherId] ELSE EmptyMap
      cur == IF code \in DOMAIN m THEN m[code] ELSE [sum |-> 0, n |-> 0]
  IN IF code = <<>> \/ val = Null THEN sums
     ELSE MapSet(sums, pitcherId,
                 MapSet(m, code, [sum |-> cur.sum + val[1], n |-> cur.n + 1]))

RECURSIVE spinCols(_, _, _, _)
spinCols(sums, pitcherId, r, cols) ==
  IF cols = <<>> THEN sums
  ELSE spinCols(spinCell(sums, pitcherId, r, Head(cols)), pitcherId, r, Tail(cols))

RECURSIVE spinRows(_, _, _, _)
spinRows(sums, idKey, cols, rows) ==
  IF rows = <<>> THEN sums
  ELSE spinRows(IF trim(Cell(Head(rows), idKey)) = <<>> THEN sums
                ELSE spinCols(sums, trim(Cell(Head(rows), idKey)), Head(rows), cols),
                idKey, cols, Tail(rows))

\* file is <<>> when rawDir has no active-spin.csv, <<f>> when it holds f
buildActiveSpinMap(file) ==
  IF file = <<>> THEN EmptyMap
  ELSE IF file[1].rows = <<>> THEN EmptyMap
  ELSE LET idKey == activeSpinIdKey(file[1].header)
           cols == activeCols(file[1].header)
           sums == spinRows(EmptyMap, idKey, cols, file[1].rows)
       IN IF idKey = <<>> \/ cols = <<>> THEN EmptyMap
          ELSE [pid \in DOMAIN sums |->
             [code \in DOMAIN sums[pid] |-> Quot(sums[pid][code].sum, sums[pid][code].n)]]

RECURSIVE armRows(_, _, _)
armRows(sums, idKey, rows) ==
  IF rows = <<>> THEN sums
  ELSE LET pid == trim(Cell(Head(rows), idKey))
           a == numOrNull(Cell(Head(rows), <<"a","r","m","_","a","n","g","l","e">>))
           cur == IF pid \in DOMAIN sums THEN sums[pid] ELSE [sum |-> 0, n |-> 0]
       IN armRows(IF pid = <<>> \/ a = Null THEN sums
                  ELSE MapSet(sums, pid, [sum |-> cur.sum + a[1], n |-> cur.n + 1]),
                  idKey, Tail(rows))

armFile(sums, dir, code) ==
  IF code \notin DOMAIN dir THEN sums
  ELSE IF statSize(dir[code]) < 10 THEN sums
  ELSE IF dir[code].rows = <<>> THEN sums
  ELSE LET idKey == savantIdKey(dir[code].header)
       IN armRows(sums, idKey, dir[code].rows)

RECURSIVE armCodes(_, _, _)
armCodes(sums, dir, codes) ==
  IF codes = <<>> THEN sums
  ELSE armCodes(armFile(sums, dir, Head(codes)), dir, Tail(codes))

\* raw2025 is <<>> when data/raw/2025 does not exist, <<dir>> otherwise
buildArmAngle2025FallbackMap(raw2025) ==
  IF raw2025 = <<>> THEN EmptyMap
  ELSE LET sums == armCodes(EmptyMap, raw2025[1], ALL_PITCH_CODES)
       IN [pid \in DOMAIN sums |-> Quot(sums[pid].sum, sums[pid].n)]

(***************************************************************************)
(* scripts/buildPitcherData.ts: main                                       *)
(***************************************************************************)
PITCH_META ==
  [c \in PitchCodes |->
     CASE c = <<"F","F">> -> [title |-> "four-seam fastball", color |-> "#D22D49"]
       [] c = <<"S","I">> -> [title |-> "sinker", color |-> "#FE9E00"]
       [] c = <<"F","C">> -> [title |-> "cutter", color |-> "#933F2C"]
       [] c = <<"C","H">> -> [title |-> "changeup", color |-> "#1DBF3A"]
       [] c = <<"F","S">> -> [title |-> "splitter", color |-> "#3BACAC"]
       [] c = <<"F","O">> -> [title |-> "forkball", color |-> "#55CCAB"]
       [] c = <<"S","C">> -> [title |-> "screwball", color |-> "#60dc33"]
       [] c = <<"C","U">> -> [title |-> "curveball", color |-> "#00D2ED"]
       [] c = <<"K","C">> -> [title |-> "knuckle curve", color |-> "#6236CD"]
       [] c = <<"C","S">> -> [title |-> "slow curve", color |-> "#0068FF"]
       [] c = <<"S","L">> -> [title |-> "slider", color |-> "#EEE716"]
       [] c = <<"S","T">> -> [title |-> "sweeper", color |-> "#DDB43A"]
       [] c = <<"S","V">> -> [title |-> "slurve", color |-> "#93AFD4"]]

\* a field an object does not have
Undefined == <<0>>

IsNullish(v) == v = Null \/ v = Undefined

DS2025 == <<"2","0","2","5">>

DS2026st == <<"2","0","2","6","s","t">>

DS2025aaa == <<"2","0","2","5","a","a","a">>

DS2025a == <<"2","0","2","5","a">>

\* the argument compared as it was typed
datasetKeyFromArgAlt(args) ==
  IF args = <<>> \/ args[1] = <<>> THEN DS2025
  ELSE LET a == args[1]
       IN IF a = <<"2","0","2","5">> THEN DS2025
          ELSE IF a \in {<<"2","0","2","6">>, <<"2","0","2","6","s","t">>, <<"s","t">>, <<"s","p","r","i","n","g">>} THEN DS2026st
          ELSE IF a \in {<<"2","0","2","5","a","a","a">>, <<"a","a","a">>} THEN DS2025aaa
          ELSE IF a \in {<<"2","0","2","5","a">>, <<"a">>} THEN DS2025a
          ELSE DS2025

\* lines 399-407; args is what follows the script name on the command line,
\* so process.argv[2] is args[1], and undefined when args is empty
datasetKeyFromArg(args) ==
  IF args = <<>> \/ args[1] = <<>> THEN DS2025
  ELSE LET a == toLowerCase(args[1])
       IN IF a = <<"2","0","2","5">> THEN DS2025
          ELSE IF a \in {<<"2","0","2","6">>, <<"2","0","2","6","s","t">>, <<"s","t">>, <<"s","p","r","i","n","g">>} THEN DS2026st
          ELSE IF a \in {<<"2","0","2","5","a","a","a">>, <<"a","a","a">>} THEN DS2025aaa
          ELSE IF a \in {<<"2","0","2","5","a">>, <<"a">>} THEN DS2025a
          ELSE DS2025

\* the lookup of the name as written, not normalized
mlbamIdOfAlt(ds, names, pitcherId, pitcherName) ==
  IF ds = DS2026st /\ pitcherName \in DOMAIN names
  THEN names[pitcherName]
  ELSE pitcherId

\* nameToId.get(normalizeName(pitcherName)) ?? pitcherId, for 2026st only
mlbamIdOf(ds, names, pitcherId, pitcherName) ==
  IF ds = DS2026st /\ normalizeName(pitcherName) \in DOMAIN names
  THEN names[normalizeName(pitcherName)]
  ELSE pitcherId

\* the first id of tryIds under which emap has an entry for code, <<>> if none
firstWith(emap, tryIds, code) ==
  IF \E i \in 1..Len(tryIds) : tryIds[i] \in DOMAIN emap /\ code \in DOMAIN emap[tryIds[i]]
  THEN <<tryIds[CHOOSE i \in 1..Len(tryIds) :
                  /\ tryIds[i] \in DOMAIN emap /\ code \in DOMAIN emap[tryIds[i]]
                  /\ \A j \in 1..(i - 1) :
                       ~(tryIds[j] \in DOMAIN emap /\ code \in DOMAIN emap[tryIds[j]])]>>
  ELSE <<>>

\* the PitchOut of one accepted combined row.  Of the eleven toNum columns the
\* model carries pitch_percent.
pitchOut(r, code, pitcherId, mlbamId, emap, smap) ==
  LET tryIds == SelectSeq(<<pitcherId, mlbamId>>, LAMBDA x : x # <<>>)
      e == firstWith(emap, tryIds, code)
      s == firstWith(smap, tryIds, code)
  IN [code |-> code,
      title |-> PITCH_META[code].title,
      color |-> PITCH_META[code].color,
      pitch_percent |-> toNum(Cell(r, <<"p","i","t","c","h","_","p","e","r","c","e","n","t">>)),
      spin_rate |-> IF e = <<>> THEN Undefined ELSE emap[e[1]][code].spin_rate,
      arm_angle |-> IF e = <<>> THEN Undefined ELSE emap[e[1]][code].arm_angle,
      active_spin_percent |-> IF s = <<>> THEN Null ELSE smap[s[1]][code]]

\* (b.pitch_percent ?? 0) - (a.pitch_percent ?? 0) as the sort reads it:
\* negative, zero or positive, and a NaN difference counts as zero
Sign(n) == IF n < 0 THEN -1 ELSE IF n > 0 THEN 1 ELSE 0

usageCompare(a, b) ==
  IF a.pitch_percent = NaN \/ b.pitch_percent = NaN THEN 0
  ELSE Sign(b.pitch_percent[1] * a.pitch_percent[2] - a.pitch_percent[1] * b.pitch_percent[2])

\* a comparator is consistent on a list when "compares equal" is transitive
consistentOn(list) ==
  \A i, j, k \in 1..Len(list) :
    (usageCompare(list[i], list[j]) = 0 /\ usageCompare(list[j], list[k]) = 0)
      => usageCompare(list[i], list[k]) = 0

RECURSIVE insertByUsage(_, _)
insertByUsage(sorted, x) ==
  IF sorted = <<>> THEN <<x>>
  ELSE IF usageCompare(sorted[Len(sorted)], x) <= 0 THEN Append(sorted, x)
  ELSE Append(insertByUsage(SubSeq(sorted, 1, Len(sorted) - 1), x), sorted[Len(sorted)])

RECURSIVE stableSortByUsage(_)
stableSortByUsage(list) ==
  IF list = <<>> THEN <<>>
  ELSE insertByUsage(stableSortByUsage(SubSeq(list, 1, Len(list) - 1)), list[Len(list)])

IndexPermutations(n) == {f \in [1..n -> 1..n] : \A i, j \in 1..n : f[i] = f[j] => i = j}

\* Array.prototype.sort: the stable order under a consistent comparator, an
\* implementation-defined order of the same elements under an inconsistent one
sortOutcomes(list) ==
  IF consistentOn(list) THEN {stableSortByUsage(list)}
  ELSE {[i \in 1..Len(list) |-> list[f[i]]] : f \in IndexPermutations(Len(list))}

\* String.prototype.localeCompare on the characters of the model: punctuation
\* before digits before letters, letters without case first, then lower case
\* before upper case at the first difference
CollationOrder ==
  <<" ", "_", "-", ".", "'">> \o Digits \o LowerLetters

RECURSIVE lexCompare(_, _)
lexCompare(a, b) ==
  IF a = <<>> /\ b = <<>> THEN 0
  ELSE IF a = <<>> THEN -1
  ELSE IF b = <<>> THEN 1
  ELSE IF Head(a) < Head(b) THEN -1
  ELSE IF Head(a) > Head(b) THEN 1
  ELSE lexCompare(Tail(a), Tail(b))

primaryKey(s) == [i \in 1..Len(s) |-> IndexIn(CollationOrder, LowerCh(s[i]))]

caseKey(s) == [i \in 1..Len(s) |-> IF IsIn(UpperLetters, s[i]) THEN 1 ELSE 0]

localeCompare(a, b) ==
  IF lexCompare(primaryKey(a), primaryKey(b)) # 0
  THEN lexCompare(primaryKey(a), primaryKey(b))
  ELSE lexCompare(caseKey(a), caseKey(b))

RECURSIVE insertByName(_, _)
insertByName(sorted, x) ==
  IF sorted = <<>> THEN <<x>>
  ELSE IF localeCompare(sorted[Len(sorted)].pitcher_name, x.pitcher_name) <= 0
       THEN Append(sorted, x)
  ELSE Append(insertByName(SubSeq(sorted, 1, Len(sorted) - 1), x), sorted[Len(sorted)])

RECURSIVE sortByName(_)
sortByName(list) ==
  IF list = <<>> THEN <<>>
  ELSE insertByName(sortByName(SubSeq(list, 1, Len(list) - 1)), list[Len(list)])

\* JSON.stringify writes a NaN as null and leaves an undefined field out
jsonNumber(n) == IF n = NaN THEN Null ELSE n

jsonPitch(x) ==
  [x EXCEPT !.pitch_percent = jsonNumber(x.pitch_percent),
            !.spin_rate = jsonNumber(x.spin_rate),
            !.arm_angle = jsonNumber(x.arm_angle),
            !.active_spin_percent = jsonNumber(x.active_spin_percent)]

\* a JSON value that is an array, and the JSON value null where an array may stand
jsonArray(items) == [type |-> "array", items |-> items]

jsonNull == [type |-> "null"]

jsonPitcher(p) ==
  [p EXCEPT !.pitches = jsonArray([i \in 1..Len(p.pitches) |-> jsonPitch(p.pitches[i])])]

\* paths are relative to process.cwd(); a path is a sequence of segments
outDirOf(ds) == <<<<"p","u","b","l","i","c">>, <<"d","a","t","a">>, ds>>

outPitchersDirOf(ds) == Append(outDirOf(ds), <<"p","i","t","c","h","e","r","s">>)

indexPathOf(ds) == Append(outDirOf(ds), <<"p","i","t","c","h","e","r","s","_","i","n","d","e","x",".","j","s","o","n">>)

\* a file name that leaves the pitcher id out
pitcherFileInAlt(dir, pitcherId) == Append(dir, <<"p","i","t","c","h","e","r",".","j","s","o","n">>)

pitcherFileIn(dir, pitcherId) == Append(dir, pitcherId \o <<".","j","s","o","n">>)

\* fs.mkdirSync(p, {recursive: true}): p and every ancestor of p
ensureDir(dirs, p) == dirs \cup {SubSeq(p, 1, n) : n \in 1..Len(p)}

(***************************************************************************)
(* Inputs of the build                                                     *)
(***************************************************************************)
MaxRows == 2

SeqsUpTo(S, n) == UNION {[1..k -> S] : k \in 0..n}

CombinedHeader == <<<<"p","i","t","c","h","e","r","_","i","d">>, <<"p","i","t","c","h","e","r","_","n","a","m","e">>, <<"p","i","t","c","h","_","t","y","p","e">>, <<"p","i","t","c","h","_","p","e","r","c","e","n","t">>>>

\* accepted rows of two pitchers, each under two spellings and two pitch types
AcceptedRowSet ==
  {Row(CombinedHeader, <<id, nm, ty[1], ty[2]>>) :
     id \in {<<"7">>, <<" ","8">>}, nm \in {<<"A","-","b">>, <<"c"," ">>}, ty \in {<<<<"F","F">>, <<"2","0">>>>, <<<<" ","s","l">>, <<"5","0">>>>}}

\* a row with no usable pitch_percent, and one row for each reason to skip
OtherRowSet ==
  {Row(CombinedHeader, <<<<"7">>, <<"A","-","b">>, <<"C","H">>, <<"x">>>>),
   Row(CombinedHeader, <<<<>>, <<"A","-","b">>, <<"F","F">>, <<"5","0">>>>),
   Row(CombinedHeader, <<<<"7">>, <<" ">>, <<"F","F">>, <<"5","0">>>>),
   Row(CombinedHeader, <<<<"7">>, <<"A","-","b">>, <<"X","X">>, <<"5","0">>>>)}

CombinedRowSet == AcceptedRowSet \cup OtherRowSet

SavantHeader == <<<<"p","l","a","y","e","r","_","i","d">>, <<"p","l","a","y","e","r","_","n","a","m","e">>, <<"s","p","i","n","_","r","a","t","e">>, <<"a","r","m","_","a","n","g","l","e">>>>

SavantFile(header, cells) ==
  [header |-> header, rows |-> [i \in 1..Len(cells) |-> Row(header, cells[i])]]

\* data/raw/<dataset>: the Savant file found for each pitch code
SavantDirs ==
  { EmptyMap,
    [c \in {<<"F","F">>, <<"S","L">>} |->
       IF c = <<"F","F">> THEN SavantFile(SavantHeader, << <<<<"9">>, <<"a"," "," ","b">>, <<"2">>, <<"3","0">>>> >>)
       ELSE SavantFile(SavantHeader, << <<<<"9">>, <<"C",".">>, <<"3">>, <<>>>> >>)],
    [c \in {<<"F","F">>, <<"S","L">>} |->
       IF c = <<"F","F">>
       THEN SavantFile(SavantHeader, << <<<<"7">>, <<"z","z">>, <<"1">>, <<>>>>, <<<<"9">>, <<"a"," "," ","b">>, <<"2">>, <<"3","0">>>> >>)
       ELSE SavantFile(SavantHeader, << <<<<"8">>, <<"C",".">>, <<"3">>, <<"3","0">>>> >>)],
    [c \in {<<"F","F">>, <<"S","L">>} |->
       IF c = <<"F","F">> THEN SavantFile(SavantHeader, << <<<<"9">>, <<"A"," ","B">>, <<"2">>, <<>>>> >>)
       ELSE SavantFile(SavantHeader, << <<<<"6">>, <<"c">>, <<"3">>, <<"3","0">>>>, <<<<"9">>, <<"z","z">>, <<"4">>, <<>>>> >>)] }

\* data/raw/2025: <<>> when the directory is missing
Raw2025Dirs ==
  { <<>>,
    << [c \in {<<"F","F">>, <<"S","L">>} |->
         IF c = <<"F","F">>
         THEN SavantFile(SavantHeader, << <<<<"9">>, <<"q">>, <<"1">>, <<"3","0">>>>, <<<<"7">>, <<"q">>, <<"1">>, <<"2","0">>>> >>)
         ELSE SavantFile(SavantHeader, << <<<<"9">>, <<"q">>, <<"1">>, <<"1","5">>>>, <<<<"6">>, <<"q">>, <<"1">>, <<>>>> >>)] >> }

ActiveSpinHeader == <<<<"e","n","t","i","t","y","_","i","d">>, <<"a","c","t","i","v","e","_","s","p","i","n","_","f","o","u","r","s","e","a","m">>, <<"a","c","t","i","v","e","_","s","p","i","n","_","f","f">>>>

\* data/raw/<dataset>/active-spin.csv: <<>> when the file is missing
ActiveSpinFiles ==
  { <<>>,
    << SavantFile(ActiveSpinHeader, << <<<<"7">>, <<"9","0">>, <<"8","1">>>>, <<<<"9">>, <<"7","0">>, <<>>>> >>) >> }

Datasets == {DS2025, DS2026st}

(***************************************************************************)
(* State                                                                   *)
(***************************************************************************)
VARIABLES
  argv,           \* the command line of the build after the script name
  dataset,        \* datasetKeyFromArg(process.argv[2])
  rawState,       \* "nodir": no data/raw/<dataset>; "nocsv": no combined CSV; "ok"
  savant,         \* data/raw/<dataset>: pitch code -> Savant file
  spinFile,       \* data/raw/<dataset>/active-spin.csv
  raw2025,        \* data/raw/2025
  combinedRows,   \* rows of pitchmovementdata.csv
  pc,             \* position of main
  enrichMap, nameToId, activeSpinMap, armAngle2025,
  rowIdx,         \* next combined row
  pitchers,       \* Map pitcher id -> PitcherOut
  order,          \* insertion order of pitchers
  dirs,           \* directories under process.cwd()
  fs,             \* files under process.cwd(): path -> content
  vpc,            \* position of the validation script
  vindex,         \* the index the validation script parsed
  vpos,           \* next index entry to check
  missing, empty, \* the two counters of the validation script
  rpc,            \* position of the route handler GET
  rawId,          \* the path parameter id
  requests,       \* the upstream requests issued so far, in order
  respA, respB,   \* what fetchJson returned for urlA and urlB
  response,       \* what GET returns
  spc,            \* position of the Savant scraper
  scode,          \* index in PITCHES of the code being downloaded
  srequests,      \* the pitch filters requested so far, in order
  sresponses,     \* ok and status of each response received, in order
  rawFiles,       \* files of data/raw/2026st: name -> content
  tpc,            \* position of the TJStats scraper
  trequests,      \* the URLs the TJStats scraper requested, in order
  tresponses,     \* ok and status of each response received, in order
  thtml,          \* the app-shell HTML received, <<>> before
  tsession,       \* the session id extracted, <<>> before
  upc,            \* position of update2026st
  selectedId,     \* page state: the selected pitcher id
  pitcher,        \* page state: the pitcher record displayed
  playerMeta,     \* page state: the player meta displayed
  loading,        \* page state: the loading flag
  indexLoaded,    \* whether the index fetch of the page has completed
  inflight,       \* the fetches of the page that are outstanding
  nselect         \* how many times the user changed the selection

bvars == <<argv, dataset, rawState, savant, spinFile, raw2025, combinedRows, pc, enrichMap,
           nameToId, activeSpinMap, armAngle2025, rowIdx, pitchers, order, dirs, fs>>

vvars == <<vpc, vindex, vpos, missing, empty>>

rvars == <<rpc, rawId, requests, respA, respB, response>>

svars == <<spc, scode, srequests, sresponses, rawFiles>>

tvars == <<tpc, trequests, tresponses, thtml, tsession>>

uvars == <<upc>>

pvars == <<selectedId, pitcher, playerMeta, loading, indexLoaded, inflight, nselect>>

\* the scrapers, the update script and the page
xvars == <<svars, tvars, uvars, pvars>>

vars == <<bvars, vvars, rvars, xvars>>

SavantIdle ==
  /\ spc = "idle"
  /\ scode = 0
  /\ srequests = <<>>
  /\ sresponses = <<>>
  /\ rawFiles = EmptyMap

TJStatsIdle ==
  /\ tpc = "idle"
  /\ trequests = <<>>
  /\ tresponses = <<>>
  /\ thtml = <<>>
  /\ tsession = <<>>

UpdateIdle == upc = "idle"

\* no record, no meta
NoneShown == [type |-> "null"]

PageIdle ==
  /\ selectedId = <<>>
  /\ pitcher = NoneShown
  /\ playerMeta = NoneShown
  /\ loading = TRUE
  /\ indexLoaded = FALSE
  /\ inflight = {}
  /\ nselect = 0

ValidateIdle ==
  /\ vpc = "idle"
  /\ vindex = <<>>
  /\ vpos = 0
  /\ missing = 0
  /\ empty = 0

\* the value of a, b and of the returned response before they exist
NoResponse == [type |-> "none"]

RouteIdle ==
  /\ rpc = "idle"
  /\ rawId = <<>>
  /\ requests = <<>>
  /\ respA = NoResponse
  /\ respB = NoResponse
  /\ response = NoResponse

InitBuild ==
  /\ dataset \in Datasets
  \* the build was started with the dataset key as its argument
  /\ argv = <<dataset>>
  /\ rawState \in {"nodir", "nocsv", "ok"}
  /\ IF rawState = "ok"
     THEN /\ savant \in SavantDirs
          /\ combinedRows \in SeqsUpTo(CombinedRowSet, MaxRows)
     ELSE /\ savant = EmptyMap
          /\ combinedRows = <<>>
  \* data/raw/2025 is read by a 2026st build only; the inputs hold an
  \* active-spin.csv for the 2025 dataset only
  /\ IF rawState = "ok" /\ dataset = DS2026st
     THEN raw2025 \in Raw2025Dirs
     ELSE raw2025 = <<>>
  /\ IF rawState = "ok" /\ dataset # DS2026st
     THEN spinFile \in ActiveSpinFiles
     ELSE spinFile = <<>>
  /\ pc = "start"
  /\ enrichMap = EmptyMap
  /\ nameToId = EmptyMap
  /\ activeSpinMap = EmptyMap
  /\ armAngle2025 = EmptyMap
  /\ rowIdx = 0
  /\ pitchers = EmptyMap
  /\ order = <<>>
  \* public/data before the run: nothing, or, where the run has no combined
  \* CSV to read, what an earlier build of the dataset wrote from a CSV of no rows
  /\ fs \in IF rawState = "ok"
            THEN {EmptyMap}
            ELSE {EmptyMap, [path \in {indexPathOf(dataset)} |-> [index |-> <<>>]]}
  /\ dirs = IF DOMAIN fs = {} THEN {} ELSE ensureDir({}, outPitchersDirOf(dataset))
  /\ ValidateIdle
  /\ RouteIdle
  /\ SavantIdle
  /\ TJStatsIdle
  /\ UpdateIdle
  /\ PageIdle

inputVars == <<argv, dataset, rawState, savant, spinFile, raw2025, combinedRows>>

\* what a script that only makes a directory leaves alone of the build
buildLocals == <<inputVars, pc, enrichMap, nameToId, activeSpinMap, armAngle2025, rowIdx,
                 pitchers, order, fs>>

\* main with the output directory made before the two early returns
MainStartAlt ==
  /\ pc = "start"
  /\ IF rawState # "ok"
     THEN /\ pc' = "done"
          /\ dirs' = ensureDir(dirs, outPitchersDirOf(dataset))
          /\ UNCHANGED <<enrichMap, nameToId, activeSpinMap, armAngle2025, rowIdx>>
     ELSE /\ LET maps == buildEnrichmentMap(savant)
             IN /\ enrichMap' = maps.enrich
                /\ nameToId' = maps.nameToId
          /\ activeSpinMap' = buildActiveSpinMap(spinFile)
          /\ armAngle2025' = IF dataset = DS2026st
                             THEN buildArmAngle2025FallbackMap(raw2025)
                             ELSE EmptyMap
          /\ rowIdx' = 1
          /\ pc' = "rows"
          /\ dirs' = dirs
  /\ UNCHANGED <<vvars, rvars, xvars, inputVars, pitchers, order, fs>>

\* main, lines 409-436: the early returns and the three maps
MainStart ==
  /\ pc = "start"
  /\ IF rawState # "ok"
     THEN /\ pc' = "done"
          /\ UNCHANGED <<enrichMap, nameToId, activeSpinMap, armAngle2025, rowIdx>>
     ELSE /\ LET maps == buildEnrichmentMap(savant)
             IN /\ enrichMap' = maps.enrich
                /\ nameToId' = maps.nameToId
          /\ activeSpinMap' = buildActiveSpinMap(spinFile)
          /\ armAngle2025' = IF dataset = DS2026st
                             THEN buildArmAngle2025FallbackMap(raw2025)
                             ELSE EmptyMap
          /\ rowIdx' = 1
          /\ pc' = "rows"
  /\ UNCHANGED <<vvars, rvars, xvars, inputVars, pitchers, order, dirs, fs>>

\* one iteration of the loop over combinedRows
ProcessRow ==
  /\ pc = "rows"
  /\ rowIdx <= Len(combinedRows)
  /\ LET r == combinedRows[rowIdx]
         pitcherId == trim(Cell(r, <<"p","i","t","c","h","e","r","_","i","d">>))
         pitcherName == trim(Cell(r, <<"p","i","t","c","h","e","r","_","n","a","m","e">>))
         code == safePitchCode(Cell(r, <<"p","i","t","c","h","_","t","y","p","e">>))
         mlbamId == mlbamIdOf(dataset, nameToId, pitcherId, pitcherName)
         known == IF pitcherId \in DOMAIN pitchers THEN pitchers[pitcherId]
                  ELSE [pitcher_id |-> pitcherId,
                        pitcher_name |-> pitcherName,
                        mlbam_id |-> mlbamId,
                        arm_angle_source |-> "dataset",
                        pitches |-> <<>>]
     IN IF pitcherId = <<>> \/ pitcherName = <<>> \/ code = <<>>
        THEN UNCHANGED <<pitchers, order>>
        ELSE /\ pitchers' =
                  MapSet(pitchers, pitcherId,
                         [known EXCEPT !.pitches =
                            Append(@, pitchOut(r, code, pitcherId, mlbamId,
                                               enrichMap, activeSpinMap))])
             /\ order' = IF pitcherId \in DOMAIN pitchers THEN order
                         ELSE Append(order, pitcherId)
  /\ rowIdx' = rowIdx + 1
  /\ UNCHANGED <<vvars, rvars, xvars, inputVars, pc, enrichMap, nameToId, activeSpinMap, armAngle2025, dirs, fs>>

\* the fallback keyed by the dataset's own pitcher_id
armFallbackAlt(p, arm2025) ==
  IF \E i \in 1..Len(p.pitches) : ~IsNullish(p.pitches[i].arm_angle) THEN p
  ELSE IF p.pitcher_id \notin DOMAIN arm2025 THEN p
  ELSE [p EXCEPT !.pitches = [i \in 1..Len(p.pitches) |->
                                [p.pitches[i] EXCEPT !.arm_angle = arm2025[p.pitcher_id]]],
                 !.arm_angle_source = "2025"]

\* the record of p after the 2026st arm angle fallback
armFallback(p, arm2025) ==
  IF \E i \in 1..Len(p.pitches) : ~IsNullish(p.pitches[i].arm_angle) THEN p
  ELSE IF p.mlbam_id \notin DOMAIN arm2025 THEN p
  ELSE [p EXCEPT !.pitches = [i \in 1..Len(p.pitches) |->
                                [p.pitches[i] EXCEPT !.arm_angle = arm2025[p.mlbam_id]]],
                 !.arm_angle_source = "2025"]

\* lines 508-524, entered when the row loop is over
ArmFallback ==
  /\ pc = "rows"
  /\ rowIdx > Len(combinedRows)
  /\ pitchers' = IF dataset = DS2026st
                 THEN [id \in DOMAIN pitchers |-> armFallback(pitchers[id], armAngle2025)]
                 ELSE pitchers
  /\ pc' = "sort"
  /\ UNCHANGED <<vvars, rvars, xvars, inputVars, enrichMap, nameToId, activeSpinMap, armAngle2025, rowIdx,
                 order, dirs, fs>>

\* lines 526-529
SortPitches ==
  /\ pc = "sort"
  /\ \E pick \in [DOMAIN pitchers ->
                    UNION {sortOutcomes(pitchers[id].pitches) : id \in DOMAIN pitchers}] :
       /\ \A id \in DOMAIN pitchers : pick[id] \in sortOutcomes(pitchers[id].pitches)
       /\ pitchers' = [id \in DOMAIN pitchers |-> [pitchers[id] EXCEPT !.pitches = pick[id]]]
  /\ pc' = "write"
  /\ UNCHANGED <<vvars, rvars, xvars, inputVars, enrichMap, nameToId, activeSpinMap, armAngle2025, rowIdx,
                 order, dirs, fs>>

\* the index in insertion order of the Map, not sorted
indexOfAlt(ps, ord) ==
  [i \in 1..Len(ord) |->
     [pitcher_id |-> ps[ord[i]].pitcher_id, pitcher_name |-> ps[ord[i]].pitcher_name]]

\* lines 537-542
indexOf(ps, ord) ==
  sortByName([i \in 1..Len(ord) |->
                [pitcher_id |-> ps[ord[i]].pitcher_id, pitcher_name |-> ps[ord[i]].pitcher_name]])

\* the files main writes: the index and one file for each pitcher
writtenFiles(ds, ps, ord) ==
  [path \in {indexPathOf(ds)}
            \cup {pitcherFileIn(outPitchersDirOf(ds), ps[id].pitcher_id) : id \in DOMAIN ps} |->
     IF path = indexPathOf(ds) THEN [index |-> indexOf(ps, ord)]
     ELSE [pitcher |->
             jsonPitcher(ps[CHOOSE id \in DOMAIN ps :
                              path = pitcherFileIn(outPitchersDirOf(ds), ps[id].pitcher_id)])]]

\* lines 531-557
WriteOutput ==
  /\ pc = "write"
  /\ dirs' = ensureDir(dirs, outPitchersDirOf(dataset))
  /\ fs' = [path \in (DOMAIN fs) \cup DOMAIN writtenFiles(dataset, pitchers, order) |->
              IF path \in DOMAIN writtenFiles(dataset, pitchers, order)
              THEN writtenFiles(dataset, pitchers, order)[path]
              ELSE fs[path]]
  /\ pc' = "done"
  /\ UNCHANGED <<vvars, rvars, xvars, inputVars, enrichMap, nameToId, activeSpinMap, armAngle2025, rowIdx,
                 pitchers, order>>

NextBuild == MainStart \/ ProcessRow \/ ArmFallback \/ SortPitches \/ WriteOutput

(***************************************************************************)
(* The three map builders on their own, over wider files                   *)
(***************************************************************************)
MaxSavantRows == 2

MaxSpinRows == 2

\* the first three columns of a Savant export; spin_rate and arm_angle follow
SavantColumnSets ==
  { <<<<"p","l","a","y","e","r","_","i","d">>, <<"p","i","t","c","h","e","r","_","i","d">>, <<"p","l","a","y","e","r","_","n","a","m","e">>>>,
    <<<<"m","l","b","_","i","d">>, <<"E","n","t","i","t","y"," ","I","D">>, <<"N","a","m","e">>>>,
    <<<<"x">>, <<"y">>, <<"p","l","a","y","e","r">>>>,
    <<<<"P","l","a","y","e","r">>, <<"I","D">>, <<"i","d">>>> }

SavantCellSet ==
  {<<v1, v2, <<"a"," "," ","b">>, m[1], m[2]>> :
     v1 \in {<<"7">>, <<"A","-","b">>}, v2 \in {<<"8"," ">>, <<>>}, m \in {<<<<"1">>, <<>>>>, <<<<"2">>, <<"3","0">>>>}}

WideFile(cols, cells) == SavantFile(cols \o <<<<"s","p","i","n","_","r","a","t","e">>, <<"a","r","m","_","a","n","g","l","e">>>>, cells)

\* a file under ten bytes that nevertheless holds a row
TinyFile == SavantFile(<<<<"i","d">>>>, << <<<<"7">>>> >>)

\* an FF file (header only when it has no rows), an SL file of one row or no
\* SL file, and possibly a tiny CH file
WideDir(hFF, ffCells, hSL, slCells, tiny) ==
  [c \in {<<"F","F">>} \cup (IF slCells = <<>> THEN {} ELSE {<<"S","L">>})
         \cup (IF tiny THEN {<<"C","H">>} ELSE {}) |->
     IF c = <<"F","F">> THEN WideFile(hFF, ffCells)
     ELSE IF c = <<"S","L">> THEN WideFile(hSL, slCells)
     ELSE TinyFile]

SpinColumnSets ==
  { <<<<"m","l","b","_","i","d">>, <<"e","n","t","i","t","y","_","i","d">>, <<"a","c","t","i","v","e","_","s","p","i","n","_","f","o","u","r","s","e","a","m">>, <<"A","c","t","i","v","e"," ","S","p","i","n"," ","F","F">>>>,
    <<<<"x">>, <<"E","n","t","i","t","y","I","D">>, <<"a","c","t","i","v","e","_","s","p","i","n","_","s","l","i","d","e","r">>, <<"a","c","t","i","v","e","_","s","p","i","n","_","z","z">>>>,
    <<<<"x">>, <<"y">>, <<"a","c","t","i","v","e","_","s","p","i","n","_","f","o","u","r","s","e","a","m">>, <<"a","c","t","i","v","e","_","s","p","i","n","_","f","f">>>>,
    <<<<"P","l","a","y","e","r"," ","I","D">>, <<"i","d">>, <<"s","p","i","n","_","a">>, <<"s","p","i","n","_","b">>>> }

SpinCellSet ==
  {<<v1, <<"8">>, s1, <<"8","0">>>> : v1 \in {<<"7">>, <<>>}, s1 \in {<<"9","0">>, <<>>}}

InitMaps ==
  /\ dataset = DS2025
  /\ argv = <<dataset>>
  /\ rawState = "ok"
  /\ combinedRows = <<>>
  /\ pc \in {"enrich", "spin", "arm"}
  /\ IF pc = "enrich"
     THEN \E hFF \in SavantColumnSets, hSL \in SavantColumnSets, tiny \in BOOLEAN :
            \E ffCells \in SeqsUpTo(SavantCellSet, MaxSavantRows) :
              \E slCells \in {<<>>} \cup {<<c>> : c \in SavantCellSet} :
                /\ slCells = <<>> => hSL = hFF
                /\ savant = WideDir(hFF, ffCells, hSL, slCells, tiny)
     ELSE savant = EmptyMap
  /\ IF pc = "spin"
     THEN spinFile \in
            {<<>>} \cup {<<SavantFile(h, cells)>> :
                           h \in SpinColumnSets, cells \in SeqsUpTo(SpinCellSet, MaxSpinRows)}
     ELSE spinFile = <<>>
  /\ IF pc = "arm"
     THEN raw2025 \in
            {<<>>} \cup {<<WideDir(h, cells, h, <<>>, tiny)>> :
                           h \in SavantColumnSets,
                           cells \in SeqsUpTo(SavantCellSet, MaxSavantRows),
                           tiny \in BOOLEAN}
     ELSE raw2025 = <<>>
  /\ enrichMap = EmptyMap
  /\ nameToId = EmptyMap
  /\ activeSpinMap = EmptyMap
  /\ armAngle2025 = EmptyMap
  /\ rowIdx = 0
  /\ pitchers = EmptyMap
  /\ order = <<>>
  /\ dirs = {}
  /\ fs = EmptyMap
  /\ ValidateIdle
  /\ RouteIdle
  /\ SavantIdle
  /\ TJStatsIdle
  /\ UpdateIdle
  /\ PageIdle

ApplyEnrichment ==
  /\ pc = "enrich"
  /\ LET maps == buildEnrichmentMap(savant)
     IN /\ enrichMap' = maps.enrich
        /\ nameToId' = maps.nameToId
  /\ pc' = "enriched"
  /\ UNCHANGED <<vvars, rvars, xvars, inputVars, activeSpinMap, armAngle2025, rowIdx, pitchers, order, dirs, fs>>

ApplyActiveSpin ==
  /\ pc = "spin"
  /\ activeSpinMap' = buildActiveSpinMap(spinFile)
  /\ pc' = "spun"
  /\ UNCHANGED <<vvars, rvars, xvars, inputVars, enrichMap, nameToId, armAngle2025, rowIdx, pitchers, order, dirs, fs>>

ApplyArmAngle ==
  /\ pc = "arm"
  /\ armAngle2025' = buildArmAngle2025FallbackMap(raw2025)
  /\ pc' = "armed"
  /\ UNCHANGED <<vvars, rvars, xvars, inputVars, enrichMap, nameToId, activeSpinMap, rowIdx, pitchers, order, dirs, fs>>

NextMaps == ApplyEnrichment \/ ApplyActiveSpin \/ ApplyArmAngle

(***************************************************************************)
(* scripts/validatePitcherData.ts                                          *)
(***************************************************************************)
MaxIndex == 2

validateIdxPath == <<<<"p","u","b","l","i","c">>, <<"d","a","t","a">>, <<"p","i","t","c","h","e","r","s","_","i","n","d","e","x",".","j","s","o","n">>>>

validateDir == <<<<"p","u","b","l","i","c">>, <<"d","a","t","a">>, <<"p","i","t","c","h","e","r","s">>>>

\* fs.existsSync of a path: a file or a directory
existsSync(path) == path \in DOMAIN fs \/ path \in dirs

\* counts a file as empty only when its pitches list has length 0
isEmptyPitcherAlt(data) ==
  /\ "pitches" \in DOMAIN data
  /\ data.pitches.type = "array"
  /\ Len(data.pitches.items) = 0

\* !data.pitches || data.pitches.length === 0: undefined and null are falsy
isEmptyPitcher(data) ==
  \/ "pitches" \notin DOMAIN data
  \/ data.pitches.type = "null"
  \/ Len(data.pitches.items) = 0

\* lines 5-15: the two existence checks, then the index is parsed
ValidateStart ==
  /\ vpc = "idle"
  /\ pc = "done"
  /\ IF ~existsSync(validateIdxPath) \/ ~existsSync(validateDir)
     THEN /\ vpc' = "threw"
          /\ UNCHANGED <<vindex, vpos>>
     ELSE /\ vindex' = fs[validateIdxPath].index
          /\ vpos' = 1
          /\ vpc' = "loop"
  /\ missing' = 0
  /\ empty' = 0
  /\ UNCHANGED <<bvars, rvars, xvars>>

\* lines 17-25: one index entry
ValidateEntry ==
  /\ vpc = "loop"
  /\ vpos <= Len(vindex)
  /\ LET file == pitcherFileIn(validateDir, vindex[vpos].pitcher_id)
     IN IF ~existsSync(file)
        THEN /\ missing' = missing + 1
             /\ empty' = empty
        ELSE /\ missing' = missing
             /\ empty' = IF isEmptyPitcher(fs[file].pitcher) THEN empty + 1 ELSE empty
  /\ vpos' = vpos + 1
  /\ UNCHANGED <<bvars, rvars, xvars, vpc, vindex>>

\* lines 27-29: the three counts are printed
ValidateReport ==
  /\ vpc = "loop"
  /\ vpos > Len(vindex)
  /\ vpc' = "done"
  /\ UNCHANGED <<bvars, rvars, xvars, vindex, vpos, missing, empty>>

NextValidate == ValidateStart \/ ValidateEntry \/ ValidateReport

\* the pitcher files a public/data/pitchers directory may hold
IndexEntrySet ==
  {[pitcher_id |-> id, pitcher_name |-> <<"n">>] : id \in {<<"7">>, <<"8">>}}

PitcherDataSet(id) ==
  { [pitcher_id |-> id],
    [pitcher_id |-> id, pitches |-> jsonNull],
    [pitcher_id |-> id, pitches |-> jsonArray(<<>>)],
    [pitcher_id |-> id, pitches |-> jsonArray(<<[code |-> <<"F","F">>]>>)] }

\* any state of public/data left by earlier runs
InitValidate ==
  /\ dataset = DS2025
  /\ argv = <<dataset>>
  /\ rawState = "ok"
  /\ savant = EmptyMap
  /\ spinFile = <<>>
  /\ raw2025 = <<>>
  /\ combinedRows = <<>>
  /\ pc = "done"
  /\ enrichMap = EmptyMap
  /\ nameToId = EmptyMap
  /\ activeSpinMap = EmptyMap
  /\ armAngle2025 = EmptyMap
  /\ rowIdx = 0
  /\ pitchers = EmptyMap
  /\ order = <<>>
  /\ \E hasDir \in BOOLEAN :
       \E held \in SUBSET {<<"7">>, <<"8">>} :
         \E data \in [held -> UNION {PitcherDataSet(id) : id \in held}] :
           \E index \in {<<>>} \cup {<<idx>> : idx \in SeqsUpTo(IndexEntrySet, MaxIndex)} :
             /\ \A id \in held : data[id] \in PitcherDataSet(id)
             /\ ~hasDir => held = {}
             /\ dirs = {<<<<"p","u","b","l","i","c">>>>, <<<<"p","u","b","l","i","c">>, <<"d","a","t","a">>>>}
                       \cup (IF hasDir THEN {validateDir} ELSE {})
             /\ fs = [path \in {pitcherFileIn(validateDir, id) : id \in held}
                                \cup (IF index = <<>> THEN {} ELSE {validateIdxPath}) |->
                        IF path = validateIdxPath THEN [index |-> index[1]]
                        ELSE [pitcher |-> data[CHOOSE id \in held :
                                                 path = pitcherFileIn(validateDir, id)]]]
  /\ ValidateIdle
  /\ RouteIdle
  /\ SavantIdle
  /\ TJStatsIdle
  /\ UpdateIdle
  /\ PageIdle

(***************************************************************************)
(* app/api/mlb/player/[id]/route.ts                                        *)
(*                                                                         *)
(* A JSON value is a record with its JavaScript type; a number carries its *)
(* digits as a string.  JUndefined is what reading an absent property      *)
(* gives.                                                                  *)
(***************************************************************************)
JUndefined == [type |-> "undefined"]

JNull == [type |-> "null"]

JString(s) == [type |-> "string", value |-> s]

JNumber(n) == [type |-> "number", value |-> n]

\* x ?? y
Coalesce(x, y) == IF x.type \in {"undefined", "null"} THEN y ELSE x

\* o?.name
Prop(o, name) ==
  IF o.type = "object" /\ name \in DOMAIN o THEN o[name] ELSE JUndefined

\* a test that lets null through
FalsyAlt(x) == x.type = "undefined"

\* !x of a JSON value that is not a number, a string or a boolean
Falsy(x) == x.type \in {"undefined", "null"}

\* the parameter taken as it is
digitsOnlyAlt(s) == s

\* lines 7-10: every run of digits, joined
digitsOnly(s) == SelectSeq(s, LAMBDA c : c \in DigitSet)

urlA(id) == <<"h","t","t","p","s",":","/","/","s","t","a","t","s","a","p","i",".","m","l","b",".","c","o","m","/","a","p","i","/","v","1","/","p","e","o","p","l","e","/">> \o id \o <<"?","h","y","d","r","a","t","e","=","c","u","r","r","e","n","t","T","e","a","m">>

urlB(id) ==
  <<"h","t","t","p","s",":","/","/","s","t","a","t","s","a","p","i",".","m","l","b",".","c","o","m","/","a","p","i","/","v","1","/","p","e","o","p","l","e","?","p","e","r","s","o","n","I","d","s","=">> \o id \o <<"&","h","y","d","r","a","t","e","=","c","u","r","r","e","n","t","T","e","a","m">>

\* what the upstream API may send: a body that does not parse, or a JSON value
HandSet ==
  {JUndefined} \cup
  {[type |-> "object", code |-> c] :
     c \in {JString("R"), JString("L"), JString("S"), JString("X"), JNumber("1"), JNull}}

TeamObject ==
  [type |-> "object", id |-> JNumber("147"), name |-> JString("New York Yankees"),
   abbreviation |-> JString("NYY")]

BioSet ==
  { [fullName |-> JString("Gerrit Cole"), currentTeam |-> TeamObject,
     currentAge |-> JNumber("35"), height |-> JString("6' 4\""), weight |-> JNumber("220")],
    [fullName |-> JNull, currentTeam |-> JNull,
     currentAge |-> JString("35"), height |-> JNumber("76"), weight |-> JString("220")],
    [fullName |-> JUndefined, currentTeam |-> JUndefined,
     currentAge |-> JUndefined, height |-> JUndefined, weight |-> JUndefined] }

PersonSet ==
  {[type |-> "object", fullName |-> bio.fullName, currentTeam |-> bio.currentTeam,
    throwsHand |-> th, pitchHand |-> ph,
    currentAge |-> bio.currentAge, height |-> bio.height, weight |-> bio.weight] :
     bio \in BioSet, th \in HandSet,
     ph \in {JUndefined, [type |-> "object", code |-> JString("L")]}}

SomePerson ==
  [type |-> "object", fullName |-> JString("Gerrit Cole"), currentTeam |-> TeamObject,
   throwsHand |-> JUndefined, pitchHand |-> [type |-> "object", code |-> JString("R")],
   currentAge |-> JNumber("35"), height |-> JString("6' 4\""), weight |-> JNumber("220")]

BodySet ==
  {[parses |-> FALSE, value |-> JNull],
   [parses |-> TRUE, value |-> [type |-> "object"]],
   [parses |-> TRUE, value |-> [type |-> "object", people |-> [type |-> "array", items |-> <<>>]]],
   [parses |-> TRUE,
    value |-> [type |-> "object", people |-> [type |-> "array", items |-> <<JNull>>]]]}
  \cup
  {[parses |-> TRUE,
    value |-> [type |-> "object", people |-> [type |-> "array", items |-> <<p>>]]] :
     p \in PersonSet}

ErrorBodySet ==
  {[parses |-> FALSE, value |-> JNull],
   [parses |-> TRUE,
    value |-> [type |-> "object", people |-> [type |-> "array", items |-> <<SomePerson>>]]]}

UpstreamSet ==
  {[ok |-> TRUE, status |-> 200, text |-> body] : body \in BodySet}
  \cup {[ok |-> FALSE, status |-> st, text |-> body] : st \in {404, 500}, body \in ErrorBodySet}

\* lines 12-25: json stays null when the text does not parse
fetchJson(r) ==
  [type |-> "response", ok |-> r.ok, status |-> r.status, text |-> r.text,
   json |-> IF r.text.parses THEN r.text.value ELSE JNull]

\* src.json?.people?.[0] ?? null
firstPerson(json) ==
  LET people == Prop(json, "people")
  IN IF people.type = "array" /\ Len(people.items) > 0
     THEN Coalesce(people.items[1], JNull)
     ELSE JNull

\* typeof v === t ? v : null
ofType(v, t) == IF v.type = t THEN v ELSE JNull

\* line 44 with the second request made whatever the first response is
needsBAlt(a) == TRUE

\* line 44: b is fetched only when a is not ok
needsB(a) == ~a.ok

statusOf(r) == IF r.type = "none" THEN JNull ELSE JNumber(r.status)

previewOf(r) == IF r.type = "none" THEN JNull ELSE r.text

\* lines 46-104: the response built from a and b
respond(id, a, b) ==
  LET src == IF a.ok THEN a ELSE b
      tried == <<urlA(id), urlB(id)>>
  IN IF src.type = "none" \/ ~src.ok
     THEN [type |-> "response", status |-> 502,
           body |-> [error |-> "MLB API error", id |-> id, tried |-> tried,
                     statusA |-> statusOf(a), statusB |-> statusOf(b),
                     bodyPreviewA |-> previewOf(a), bodyPreviewB |-> previewOf(b)]]
     ELSE LET person == firstPerson(src.json)
              team == Coalesce(Prop(person, "currentTeam"), JNull)
          IN IF Falsy(person)
             THEN [type |-> "response", status |-> 502,
                   body |-> [error |-> "No person returned from MLB API", id |-> id,
                             tried |-> tried]]
             ELSE [type |-> "response", status |-> 200,
                   body |->
                     [id |-> id,
                      fullName |-> Coalesce(Prop(person, "fullName"), JNull),
                      teamId |-> Coalesce(Prop(team, "id"), JNull),
                      teamName |-> Coalesce(Prop(team, "name"), JNull),
                      teamAbbr |->
                        Coalesce(Prop(team, "abbreviation"),
                          Coalesce(Prop(team, "abbrev"),
                            Coalesce(Prop(team, "triCode"),
                              Coalesce(Prop(Prop(person, "currentTeam"), "abbreviation"),
                                       JNull)))),
                      throws |-> Coalesce(Prop(Prop(person, "throwsHand"), "code"),
                                   Coalesce(Prop(Prop(person, "pitchHand"), "code"), JNull)),
                      age |-> ofType(Prop(person, "currentAge"), "number"),
                      height |-> ofType(Prop(person, "height"), "string"),
                      weight |-> ofType(Prop(person, "weight"), "number"),
                      source |-> IF a.ok THEN "people/{id}" ELSE "people?personIds="]]

\* lines 31-41: the id is reduced to its digits, then urlA is requested
GetStart ==
  /\ rpc = "start"
  /\ LET id == digitsOnly(rawId)
     IN IF id = <<>>
        THEN /\ response' = [type |-> "response", status |-> 400,
                             body |-> [error |-> "Invalid player id", rawId |-> rawId]]
             /\ rpc' = "done"
             /\ requests' = requests
        ELSE /\ requests' = Append(requests, urlA(id))
             /\ rpc' = "awaitA"
             /\ response' = response
  /\ UNCHANGED <<bvars, vvars, xvars, rawId, respA, respB>>

\* lines 41-46: a arrives; urlB is requested or the response is built
ReceiveA ==
  /\ rpc = "awaitA"
  /\ \E r \in UpstreamSet :
       LET a == fetchJson(r)
           id == digitsOnly(rawId)
       IN /\ respA' = a
          /\ IF needsB(a)
             THEN /\ requests' = Append(requests, urlB(id))
                  /\ rpc' = "awaitB"
                  /\ response' = response
             ELSE /\ response' = respond(id, a, NoResponse)
                  /\ rpc' = "done"
                  /\ requests' = requests
  /\ UNCHANGED <<bvars, vvars, xvars, rawId, respB>>

\* lines 44-104: b arrives and the response is built
ReceiveB ==
  /\ rpc = "awaitB"
  /\ \E r \in UpstreamSet :
       LET b == fetchJson(r)
       IN /\ respB' = b
          /\ response' = respond(digitsOnly(rawId), respA, b)
  /\ rpc' = "done"
  /\ UNCHANGED <<bvars, vvars, xvars, rawId, requests, respA>>

\* line 13: fetch rejects and GET rejects with it, returning nothing
FetchFails ==
  /\ rpc \in {"awaitA", "awaitB"}
  /\ rpc' = "threw"
  /\ UNCHANGED <<bvars, vvars, xvars, rawId, requests, respA, respB, response>>

NextRoute == GetStart \/ ReceiveA \/ ReceiveB \/ FetchFails

RawIdSet == {<<"6","6","0","2","7","1">>, <<"p","-","1","2","a","3">>, <<"a","b","c">>, <<>>}

InitRoute ==
  /\ dataset = DS2025
  /\ argv = <<dataset>>
  /\ rawState = "ok"
  /\ savant = EmptyMap
  /\ spinFile = <<>>
  /\ raw2025 = <<>>
  /\ combinedRows = <<>>
  /\ pc = "idle"
  /\ enrichMap = EmptyMap
  /\ nameToId = EmptyMap
  /\ activeSpinMap = EmptyMap
  /\ armAngle2025 = EmptyMap
  /\ rowIdx = 0
  /\ pitchers = EmptyMap
  /\ order = <<>>
  /\ dirs = {}
  /\ fs = EmptyMap
  /\ ValidateIdle
  /\ rpc = "start"
  /\ rawId \in RawIdSet
  /\ requests = <<>>
  /\ respA = NoResponse
  /\ respB = NoResponse
  /\ response = NoResponse
  /\ SavantIdle
  /\ TJStatsIdle
  /\ UpdateIdle
  /\ PageIdle

(***************************************************************************)
(* scripts/fetchSavantSpring2026.ts.  The second Savant script, kept       *)
(* after the validation script, runs the same loop with downloadToFile.    *)
(***************************************************************************)
PITCHES ==
  <<<<"F","F">>, <<"S","I">>, <<"F","C">>, <<"C","H">>, <<"F","S">>, <<"F","O">>, <<"S","C">>, <<"C","U">>, <<"K","C">>, <<"C","S">>, <<"S","L">>, <<"S","T">>, <<"S","V">>>>

\* path.join(process.cwd(), "data", "raw", "2026st")
rawDir2026st == <<<<"d","a","t","a">>, <<"r","a","w">>, <<"2","0","2","6","s","t">>>>

\* the three search parameters the loop sets on the template URL
csvUrl(code) == [hfPT |-> code \o <<"|">>, hfSea |-> <<"2","0","2","6","|">>, hfGT |-> <<"S","|">>]

savantFileName(code) == <<"s","a","v","a","n","t","_","2","0","2","6","s","t","_">> \o code \o <<".","c","s","v">>

\* a download that writes the body whatever the status is
downloadToFileAlt(files, code, res) == MapSet(files, savantFileName(code), res.text)

\* lines 34-40: the body is written only when the response is ok
downloadToFile(files, code, res) ==
  IF res.ok THEN MapSet(files, savantFileName(code), res.text) ELSE files

\* what Savant may answer; a rejected fetch has no status
SavantResponseSet ==
  {[ok |-> TRUE, status |-> 200, text |-> "csv"],
   [ok |-> FALSE, status |-> 403, text |-> "blocked"],
   [ok |-> FALSE, status |-> 0, text |-> "rejected"]}

\* lines 15-18: the output directory is made, the loop is entered
SavantStart ==
  /\ spc = "start"
  /\ scode' = 1
  /\ spc' = "request"
  /\ dirs' = ensureDir(dirs, rawDir2026st)
  /\ UNCHANGED <<buildLocals, vvars, rvars, tvars, uvars, pvars, srequests, sresponses, rawFiles>>

\* lines 20-36: the request for the next code is sent
SavantRequest ==
  /\ spc = "request"
  /\ srequests' = Append(srequests, csvUrl(PITCHES[scode]))
  /\ spc' = "await"
  /\ UNCHANGED <<bvars, vvars, rvars, tvars, uvars, pvars, scode, sresponses, rawFiles>>

\* lines 37-52: the response; a response not ok or a rejected fetch throws,
\* and the catch of main exits with code 1
SavantResponse ==
  /\ spc = "await"
  /\ \E res \in SavantResponseSet :
       /\ sresponses' = Append(sresponses, [ok |-> res.ok, status |-> res.status])
       /\ rawFiles' = downloadToFile(rawFiles, PITCHES[scode], res)
       /\ IF ~res.ok
          THEN /\ spc' = "exit1"
               /\ scode' = scode
          ELSE /\ scode' = scode + 1
               /\ spc' = IF scode = Len(PITCHES) THEN "exit0" ELSE "request"
  /\ UNCHANGED <<bvars, vvars, rvars, tvars, uvars, pvars, srequests>>

NextSavant == SavantStart \/ SavantRequest \/ SavantResponse

\* files an earlier run may have left in data/raw/2026st
StaleFileSets ==
  {[name \in {savantFileName(code) : code \in S} |-> "old"] : S \in SUBSET {<<"F","F">>, <<"S","I">>, <<"S","V">>}}

BuildAtRest ==
  /\ dataset = DS2025
  /\ argv = <<dataset>>
  /\ rawState = "ok"
  /\ savant = EmptyMap
  /\ spinFile = <<>>
  /\ raw2025 = <<>>
  /\ combinedRows = <<>>
  /\ pc = "idle"
  /\ enrichMap = EmptyMap
  /\ nameToId = EmptyMap
  /\ activeSpinMap = EmptyMap
  /\ armAngle2025 = EmptyMap
  /\ rowIdx = 0
  /\ pitchers = EmptyMap
  /\ order = <<>>
  /\ fs = EmptyMap

\* data/raw/2026st exists when it holds a file
dirsFor(files) == IF files = EmptyMap THEN {} ELSE ensureDir({}, rawDir2026st)

InitSavant ==
  /\ BuildAtRest
  /\ ValidateIdle
  /\ RouteIdle
  /\ TJStatsIdle
  /\ UpdateIdle
  /\ PageIdle
  /\ spc = "start"
  /\ scode = 0
  /\ srequests = <<>>
  /\ sresponses = <<>>
  /\ rawFiles \in StaleFileSets
  /\ dirs = dirsFor(rawFiles)

(***************************************************************************)
(* scripts/fetchTJStats2026st.ts                                           *)
(***************************************************************************)
BASE == <<"h","t","t","p","s",":","/","/","n","e","s","t","i","c","o","t","-","m","l","b","-","p","i","t","c","h","i","n","g","-","a","p","p",".","h","f",".","s","p","a","c","e">>

MinSessionLen == 20

\* [0-9a-f] under the i flag
HexSet == DigitSet \cup {"a", "b", "c", "d", "e", "f", "A", "B", "C", "D", "E", "F"}

\* the length of the longest run of hex characters of s that starts at j
hexRun(s, j) ==
  LET lens == {n \in 0..(Len(s) - j + 1) : \A k \in j..(j + n - 1) : s[k] \in HexSet}
  IN CHOOSE n \in lens : \A m \in lens : m <= n

\* /\/session\/([0-9a-f]{20,})\//i matches at position i.  The slash that
\* ends the match is no hex character, so the group is a whole run.
sessionAt(s, i) ==
  /\ i + 8 <= Len(s)
  /\ toLowerCase(SubSeq(s, i, i + 8)) = <<"/","s","e","s","s","i","o","n","/">>
  /\ LET n == hexRun(s, i + 9)
     IN /\ n >= MinSessionLen
        /\ i + 9 + n <= Len(s)
        /\ s[i + 9 + n] = "/"

\* a pattern that asks for a single hex character
anySessionAt(s, i) ==
  /\ i + 8 <= Len(s)
  /\ toLowerCase(SubSeq(s, i, i + 8)) = <<"/","s","e","s","s","i","o","n","/">>
  /\ LET n == hexRun(s, i + 9)
     IN /\ n >= 1
        /\ i + 9 + n <= Len(s)
        /\ s[i + 9 + n] = "/"

\* lines 38-43: the group of the leftmost match, <<>> for null
extractSessionIdAlt(html) ==
  LET at == {i \in 1..Len(html) : anySessionAt(html, i)}
  IN IF at = {} THEN <<>>
     ELSE LET i == CHOOSE x \in at : \A y \in at : x <= y
          IN SubSeq(html, i + 9, i + 8 + hexRun(html, i + 9))

extractSessionId(html) ==
  LET at == {i \in 1..Len(html) : sessionAt(html, i)}
  IN IF at = {} THEN <<>>
     ELSE LET i == CHOOSE x \in at : \A y \in at : x <= y
          IN SubSeq(html, i + 9, i + 8 + hexRun(html, i + 9))

downloadUrl(sessionId) == BASE \o <<"/","s","e","s","s","i","o","n","/">> \o sessionId \o <<"/","d","o","w","n","l","o","a","d","/","d","o","w","n","l","o","a","d","_","a","l","l","?","w","=">>

combinedFileName == <<"p","i","t","c","h","m","o","v","e","m","e","n","t","d","a","t","a",".","c","s","v">>

HtmlSet ==
  { <<"<","a"," ","h","r","e","f","=","'","/","s","e","s","s","i","o","n","/","0","1","2","3","4","5","6","7","8","9","a","b","c","d","e","f","0","1","2","3","/","x","'",">">>,
    <<"/","S","E","S","S","I","O","N","/","0","1","2","3","4","5","6","7","8","9","A","B","C","D","E","F","0","1","2","3","a","b","/">>,
    <<"/","s","e","s","s","i","o","n","/","a","b","c","/"," ","/","s","e","s","s","i","o","n","/","a","a","a","a","a","a","a","a","a","a","a","a","a","a","a","a","a","a","a","a","a","/">>,
    <<"/","s","e","s","s","i","o","n","/","b","b","b","b","b","b","b","b","b","b","b","b","b","b","b","b","b","b","b","b","/"," ","/","s","e","s","s","i","o","n","/","c","c","c","c","c","c","c","c","c","c","c","c","c","c","c","c","c","c","c","c","/">>,
    <<"/","s","e","s","s","i","o","n","/","/","s","e","s","s","i","o","n","/","d","d","d","d","d","d","d","d","d","d","d","d","d","d","d","d","d","d","d","d","d","d","d","d","/">>,
    <<"x","/","S","e","s","s","i","o","n","/","0","0","0","0","0","0","0","0","0","0","0","0","0","0","0","0","0","0","0","0","/">>,
    <<"/","s","e","s","s","i","o","n","/","0","1","2","3","4","5","6","7","8","9","a","b","c","d","e","f","0","1","2","/">>,
    <<"/","s","e","s","s","i","o","n","/","0","1","2","3","4","5","6","7","8","9","a","b","c","d","e","f","0","1","2","3">>,
    <<"/","s","e","s","s","i","o","n","/","0","1","2","3","4","5","6","7","8","9","a","b","c","d","e","f","g","0","1","2","3","4","5","6","7","8","9","a","b","c","d","e","f","/">>,
    <<"/","s","e","s","s","i","o","n","s","/","0","1","2","3","4","5","6","7","8","9","a","b","c","d","e","f","0","1","2","3","/">>,
    <<"<","h","t","m","l",">","<","/","h","t","m","l",">">>,
    <<>> }

HtmlResponseSet ==
  {[ok |-> TRUE, status |-> 200, text |-> h] : h \in HtmlSet}
  \cup {[ok |-> FALSE, status |-> 503, text |-> <<"/","s","e","s","s","i","o","n","/","0","1","2","3","4","5","6","7","8","9","a","b","c","d","e","f","0","1","2","3","/">>],
        [ok |-> FALSE, status |-> 0, text |-> <<>>]}

CsvResponseSet ==
  {[ok |-> TRUE, status |-> 200, body |-> "csv"],
   [ok |-> TRUE, status |-> 200, body |-> ""],
   [ok |-> FALSE, status |-> 404, body |-> "not found"],
   [ok |-> FALSE, status |-> 0, body |-> "rejected"]}

\* lines 45-47: the app shell is requested
TJStatsStart ==
  /\ tpc = "start"
  /\ trequests' = Append(trequests, BASE \o <<"/">>)
  /\ tpc' = "awaitHtml"
  /\ UNCHANGED <<bvars, vvars, rvars, svars, uvars, pvars, tresponses, thtml, tsession>>

\* lines 11-22, 47-63: the app shell arrives; fetchText throws when it is not
\* ok, main throws when no session id is found, else the download is requested
TJStatsHtml ==
  /\ tpc = "awaitHtml"
  /\ \E res \in HtmlResponseSet :
       /\ tresponses' = Append(tresponses, [ok |-> res.ok, status |-> res.status])
       /\ IF ~res.ok
          THEN /\ tpc' = "exit1"
               /\ UNCHANGED <<thtml, tsession, trequests>>
          ELSE /\ thtml' = res.text
               /\ tsession' = extractSessionId(res.text)
               /\ IF extractSessionId(res.text) = <<>>
                  THEN /\ tpc' = "exit1"
                       /\ trequests' = trequests
                  ELSE /\ trequests' = Append(trequests, downloadUrl(extractSessionId(res.text)))
                       /\ tpc' = "awaitCsv"
  /\ UNCHANGED <<bvars, vvars, rvars, svars, uvars, pvars>>

\* lines 24-36, 63-78: the download arrives and is saved, or fetchBuffer throws
TJStatsCsv ==
  /\ tpc = "awaitCsv"
  /\ \E res \in CsvResponseSet :
       /\ tresponses' = Append(tresponses, [ok |-> res.ok, status |-> res.status])
       /\ IF ~res.ok
          THEN /\ tpc' = "exit1"
               /\ UNCHANGED <<dirs, rawFiles>>
          ELSE /\ dirs' = ensureDir(dirs, rawDir2026st)
               /\ rawFiles' = MapSet(rawFiles, combinedFileName, res.body)
               /\ tpc' = "exit0"
  /\ UNCHANGED <<buildLocals, vvars, rvars, uvars, pvars, spc, scode, srequests, sresponses,
                 trequests, thtml, tsession>>

NextTJStats == TJStatsStart \/ TJStatsHtml \/ TJStatsCsv

InitTJStats ==
  /\ BuildAtRest
  /\ ValidateIdle
  /\ RouteIdle
  /\ UpdateIdle
  /\ PageIdle
  /\ spc = "idle"
  /\ scode = 0
  /\ srequests = <<>>
  /\ sresponses = <<>>
  /\ rawFiles \in {EmptyMap, [name \in {combinedFileName} |-> "old"],
                   [name \in {combinedFileName, savantFileName(<<"F","F">>)} |-> "old"]}
  /\ tpc = "start"
  /\ trequests = <<>>
  /\ tresponses = <<>>
  /\ thtml = <<>>
  /\ tsession = <<>>
  /\ dirs = dirsFor(rawFiles)

(***************************************************************************)
(* app/page.tsx: the state of Page and its three loading effects           *)
(***************************************************************************)
MaxSelections == 3

\* the ids the dropdown offers once the index is loaded
OptionIds == {<<"7">>, <<"8">>}

\* lines 304-334: both effects run when selectedId has changed to a
\* non-empty id; each starts one fetch, the first sets the loading flag
effectsFor(id, n) ==
  /\ loading' = TRUE
  /\ inflight' = inflight \cup {[kind |-> "pitcher", id |-> id, n |-> n],
                                [kind |-> "meta", id |-> id, n |-> n]}

\* lines 293-302: the index arrives; its first entry becomes the selection
IndexArrives ==
  /\ ~indexLoaded
  /\ indexLoaded' = TRUE
  /\ \E first \in OptionIds :
       /\ selectedId' = first
       /\ effectsFor(first, nselect)
  /\ UNCHANGED <<bvars, vvars, rvars, svars, tvars, uvars, pitcher, playerMeta, nselect>>

\* lines 293-302: the index fetch fails or the index is empty
IndexFails ==
  /\ ~indexLoaded
  /\ indexLoaded' = TRUE
  /\ UNCHANGED <<bvars, vvars, rvars, svars, tvars, uvars, selectedId, pitcher, playerMeta,
                 loading, inflight, nselect>>

\* line 467: the user picks another option
Select ==
  /\ indexLoaded
  /\ selectedId # <<>>
  /\ nselect < MaxSelections
  /\ \E id \in OptionIds \ {selectedId} :
       /\ selectedId' = id
       /\ effectsFor(id, nselect + 1)
  /\ nselect' = nselect + 1
  /\ UNCHANGED <<bvars, vvars, rvars, svars, tvars, uvars, pitcher, playerMeta, indexLoaded>>

\* lines 312-314: a pitcher file arrives and is shown
PitcherArrives ==
  /\ \E f \in inflight :
       /\ f.kind = "pitcher"
       /\ pitcher' = [type |-> "object", pitcher_id |-> f.id]
       /\ inflight' = inflight \ {f}
  /\ loading' = FALSE
  /\ UNCHANGED <<bvars, vvars, rvars, svars, tvars, uvars, selectedId, playerMeta,
                 indexLoaded, nselect>>

\* lines 315-318: a pitcher fetch fails or its body is no JSON
PitcherFails ==
  /\ \E f \in inflight :
       /\ f.kind = "pitcher"
       /\ inflight' = inflight \ {f}
  /\ loading' = FALSE
  /\ UNCHANGED <<bvars, vvars, rvars, svars, tvars, uvars, selectedId, pitcher, playerMeta,
                 indexLoaded, nselect>>

\* lines 329-332: the player meta arrives; an error body clears the meta
MetaArrives ==
  /\ \E f \in inflight :
       /\ f.kind = "meta"
       /\ inflight' = inflight \ {f}
       /\ \E isError \in BOOLEAN :
            playerMeta' = IF isError THEN NoneShown
                          ELSE [type |-> "object", id |-> digitsOnly(f.id)]
  /\ UNCHANGED <<bvars, vvars, rvars, svars, tvars, uvars, selectedId, pitcher, loading,
                 indexLoaded, nselect>>

\* line 333: the meta fetch fails
MetaFails ==
  /\ \E f \in inflight :
       /\ f.kind = "meta"
       /\ inflight' = inflight \ {f}
  /\ playerMeta' = NoneShown
  /\ UNCHANGED <<bvars, vvars, rvars, svars, tvars, uvars, selectedId, pitcher, loading,
                 indexLoaded, nselect>>

NextPage ==
  \/ IndexArrives
  \/ IndexFails
  \/ Select
  \/ PitcherArrives
  \/ PitcherFails
  \/ MetaArrives
  \/ MetaFails

InitPage ==
  /\ BuildAtRest
  /\ dirs = {}
  /\ ValidateIdle
  /\ RouteIdle
  /\ SavantIdle
  /\ TJStatsIdle
  /\ UpdateIdle
  /\ PageIdle

(***************************************************************************)
(* scripts/update2026st.ts: two commands run with execSync                 *)
(***************************************************************************)
\* an execSync that returns whatever the exit code of the command is
execSucceededAlt(exit) == TRUE

\* lines 582-584: execSync returns when the command exits with code 0 and
\* throws otherwise
execSucceeded(exit) == exit = "exit0"

\* line 586: the fetch script is started and run blocks on it
UpdateRunFetch ==
  /\ upc = "start"
  /\ upc' = "fetching"
  /\ spc' = "start"
  /\ UNCHANGED <<bvars, vvars, rvars, tvars, pvars, scode, srequests, sresponses, rawFiles>>

\* lines 586-587: the fetch script has exited; the build is started with
\* the argument 2026st, or the thrown error ends the script
UpdateRunBuild ==
  /\ upc = "fetching"
  /\ spc \in {"exit0", "exit1"}
  /\ IF execSucceeded(spc)
     THEN /\ upc' = "building"
          /\ pc' = "start"
     ELSE /\ upc' = "failed"
          /\ pc' = pc
  /\ UNCHANGED <<inputVars, enrichMap, nameToId, activeSpinMap, armAngle2025, rowIdx, pitchers,
                 order, dirs, fs, vvars, rvars, svars, tvars, pvars>>

\* line 587: the build has returned
UpdateDone ==
  /\ upc = "building"
  /\ pc = "done"
  /\ upc' = "done"
  /\ UNCHANGED <<bvars, vvars, rvars, svars, tvars, pvars>>

NextUpdate == UpdateRunFetch \/ NextSavant \/ UpdateRunBuild \/ NextBuild \/ UpdateDone

\* the build inputs stand for what data/raw/2026st will hold once the fetch
\* is over: the combined CSV may be missing, the directory may not
InitUpdate ==
  /\ dataset = DS2026st
  /\ argv = <<dataset>>
  /\ rawState \in {"nocsv", "ok"}
  /\ IF rawState = "ok"
     THEN /\ savant \in SavantDirs
          /\ combinedRows \in SeqsUpTo(CombinedRowSet, 1)
          /\ raw2025 \in Raw2025Dirs
     ELSE /\ savant = EmptyMap
          /\ combinedRows = <<>>
          /\ raw2025 = <<>>
  /\ spinFile = <<>>
  /\ pc = "idle"
  /\ enrichMap = EmptyMap
  /\ nameToId = EmptyMap
  /\ activeSpinMap = EmptyMap
  /\ armAngle2025 = EmptyMap
  /\ rowIdx = 0
  /\ pitchers = EmptyMap
  /\ order = <<>>
  /\ dirs = {}
  /\ fs = EmptyMap
  /\ ValidateIdle
  /\ RouteIdle
  /\ SavantIdle
  /\ TJStatsIdle
  /\ PageIdle
  /\ upc = "start"

(***************************************************************************)
(* The command line of the build: datasetKeyFromArg(process.argv[2])       *)
(***************************************************************************)
\* the words datasetKeyFromArg compares its argument with
ArgWords ==
  {<<"2","0","2","5">>, <<"2","0","2","6">>, <<"2","0","2","6","s","t">>, <<"s","t">>, <<"s","p","r","i","n","g">>, <<"2","0","2","5","a","a","a">>, <<"a","a","a">>, <<"2","0","2","5","a">>, <<"a">>}

\* a word in every mix of upper and lower case
RECURSIVE CaseVariants(_)
CaseVariants(w) ==
  IF w = <<>> THEN {<<>>}
  ELSE {<<c>> \o t : c \in {Head(w), UpperCh(Head(w))}, t \in CaseVariants(Tail(w))}

\* strings that are none of the words in any case
OtherArgs ==
  {<<>>, <<" ","s","t">>, <<"s","t"," ">>, <<"2","0","2","4">>, <<"2","0","2","5","0">>, <<"2","0","2","6","s">>, <<"s","t","a">>, <<"a","a">>, <<"2","0","2","5","a","a">>,
   <<"s","p","r","i","n","g","s">>, <<"s","p","r","i","n">>, <<"b">>, <<"2","0","2","5","-","a">>, <<"x","y","z">>}

\* no argument, or one argument
ArgvSet ==
  {<<>>} \cup {<<s>> : s \in UNION {CaseVariants(w) : w \in ArgWords} \cup OtherArgs}

\* main, line 410
MainDataset ==
  /\ pc = "argv"
  /\ dataset' = datasetKeyFromArg(argv)
  /\ pc' = "start"
  /\ UNCHANGED <<argv, rawState, savant, spinFile, raw2025, combinedRows, enrichMap, nameToId,
                 activeSpinMap, armAngle2025, rowIdx, pitchers, order, dirs, fs>>
  /\ UNCHANGED <<vvars, rvars, xvars>>

\* main from its first line to the early return of a dataset with no input
NextArgs == MainDataset \/ MainStart

\* any command line, a dataset folder that is missing or holds no combined CSV;
\* dataset is the empty string until line 410 has run
InitArgs ==
  /\ argv \in ArgvSet
  /\ dataset = <<>>
  /\ rawState \in {"nodir", "nocsv"}
  /\ savant = EmptyMap
  /\ combinedRows = <<>>
  /\ raw2025 = <<>>
  /\ spinFile = <<>>
  /\ pc = "argv"
  /\ enrichMap = EmptyMap
  /\ nameToId = EmptyMap
  /\ activeSpinMap = EmptyMap
  /\ armAngle2025 = EmptyMap
  /\ rowIdx = 0
  /\ pitchers = EmptyMap
  /\ order = <<>>
  /\ dirs = {}
  /\ fs = EmptyMap
  /\ ValidateIdle
  /\ RouteIdle
  /\ SavantIdle
  /\ TJStatsIdle
  /\ UpdateIdle
  /\ PageIdle

(***************************************************************************)
(* Specifications                                                          *)
(***************************************************************************)
\* the build, and the validation script run after it
Init == InitBuild

Next == NextBuild \/ ValidateStart

Spec == Init /\ [][Next]_vars

\* the three map builders on wider files
SpecMaps == InitMaps /\ [][NextMaps]_vars

\* the validation script on any state of public/data
SpecValidate == InitValidate /\ [][NextValidate]_vars

\* one call of GET /api/mlb/player/[id] against any upstream
SpecRoute == InitRoute /\ [][NextRoute]_vars

\* one run of the Savant scraper against any sequence of answers
SpecSavant == InitSavant /\ [][NextSavant]_vars

\* one run of the TJStats scraper against any app shell and any answers
SpecTJStats == InitTJStats /\ [][NextTJStats]_vars

\* the page under any user selections and any order of responses
SpecPage == InitPage /\ [][NextPage]_vars

\* update2026st with the fetch script and the build it runs
SpecUpdate == InitUpdate /\ [][NextUpdate]_vars

\* the build's reading of its command line, for any argument
SpecArgs == InitArgs /\ [][NextArgs]_vars

(***************************************************************************)
(* Properties of the build                                                 *)
(***************************************************************************)
RowId(r) == trim(Cell(r, <<"p","i","t","c","h","e","r","_","i","d">>))

RowName(r) == trim(Cell(r, <<"p","i","t","c","h","e","r","_","n","a","m","e">>))

RowCode(r) == safePitchCode(Cell(r, <<"p","i","t","c","h","_","t","y","p","e">>))

Accepted(r) == RowId(r) # <<>> /\ RowName(r) # <<>> /\ RowCode(r) # <<>>

\* the positions of the accepted rows among the first n combined rows
AcceptedUpTo(n) == {i \in 1..n : Accepted(combinedRows[i])}

AcceptedOf(P, n) == {i \in AcceptedUpTo(n) : RowId(combinedRows[i]) = P}

BuildWrote == pc = "done" /\ rawState = "ok"

PitcherFilesWritten == (DOMAIN fs) \ {indexPathOf(dataset)}

\* C1: after a build run that reaches the output step the index holds exactly
\* one entry for each distinct pitcher_id of the accepted combined rows, and
\* the pitcher files written are exactly the files <pitcher_id>.json of the
\* index entries, one for each entry.
C1_IndexMatchesFiles ==
  BuildWrote =>
    LET ids == {RowId(combinedRows[i]) : i \in AcceptedUpTo(Len(combinedRows))}
        idx == fs[indexPathOf(dataset)].index
    IN /\ Len(idx) = Cardinality(ids)
       /\ {idx[i].pitcher_id : i \in 1..Len(idx)} = ids
       /\ PitcherFilesWritten =
            {Append(outPitchersDirOf(dataset), idx[i].pitcher_id \o <<".","j","s","o","n">>) : i \in 1..Len(idx)}
       /\ Cardinality(PitcherFilesWritten) = Len(idx)
       /\ \A i \in 1..Len(idx) :
            fs[Append(outPitchersDirOf(dataset), idx[i].pitcher_id \o <<".","j","s","o","n">>)].pitcher.pitcher_id
              = idx[i].pitcher_id

C1_Witness ==
  /\ BuildWrote
  /\ Len(fs[indexPathOf(dataset)].index) = 2
  /\ Cardinality(PitcherFilesWritten) = 2

\* the metrics an entry carries: those of an enrichment entry, or none
MetricsOf(x) == [spin_rate |-> x.spin_rate, arm_angle |-> x.arm_angle]

NoMetrics == [spin_rate |-> Undefined, arm_angle |-> Undefined]

HasEnrich(id, C) == id \in DOMAIN enrichMap /\ C \in DOMAIN enrichMap[id]

\* the metrics the claim C2 expects for a row of pitcher P with code C
ClaimedMetrics(P, C) ==
  IF HasEnrich(P, C) THEN enrichMap[P][C]
  ELSE IF HasEnrich(pitchers[P].mlbam_id, C) THEN enrichMap[pitchers[P].mlbam_id][C]
  ELSE NoMetrics

\* the position in P's pitches of the entry appended for combined row i
EntryPos(P, i) == Cardinality(AcceptedOf(P, i))

\* C2: while the rows are merged, every accepted row read so far with pitcher
\* id P and code C has exactly one entry with code C in P's record (the
\* entries of all records are as many as the accepted rows read), and the
\* entry carries the metrics stored for (P, C) if they exist, otherwise those
\* stored for (mlbam_id of P, C), otherwise none.
C2_OneEntryPerRowWithMetrics ==
  pc = "rows" =>
    /\ DOMAIN pitchers = {RowId(combinedRows[i]) : i \in AcceptedUpTo(rowIdx - 1)}
    /\ \A P \in DOMAIN pitchers :
         Len(pitchers[P].pitches) = Cardinality(AcceptedOf(P, rowIdx - 1))
    /\ \A i \in AcceptedUpTo(rowIdx - 1) :
         LET P == RowId(combinedRows[i])
             C == RowCode(combinedRows[i])
             x == pitchers[P].pitches[EntryPos(P, i)]
         IN x.code = C /\ MetricsOf(x) = ClaimedMetrics(P, C)

\* the pitch entries of P as the row loop merged them, in row order
RECURSIVE MergedOf(_, _)
MergedOf(P, n) ==
  IF n = 0 THEN <<>>
  ELSE IF n \in AcceptedOf(P, n)
       THEN Append(MergedOf(P, n - 1),
                   pitchOut(combinedRows[n], RowCode(combinedRows[n]), P,
                            mlbamIdOf(dataset, nameToId, P, RowName(combinedRows[n])),
                            enrichMap, activeSpinMap))
       ELSE MergedOf(P, n - 1)

\* the rows of data/raw/2025 that carry an arm angle for player id
ArmRows2025(id) ==
  IF raw2025 = <<>> THEN {}
  ELSE {ci \in UNION {{<<c, i>> : i \in 1..Len(raw2025[1][c].rows)} : c \in DOMAIN raw2025[1]} :
          /\ trim(raw2025[1][ci[1]].rows[ci[2]][<<"p","l","a","y","e","r","_","i","d">>]) = id
          /\ numOrNull(raw2025[1][ci[1]].rows[ci[2]][<<"a","r","m","_","a","n","g","l","e">>]) # Null}

RECURSIVE SumArm(_)
SumArm(S) ==
  IF S = {} THEN 0
  ELSE LET ci == CHOOSE x \in S : TRUE
       IN toNum(raw2025[1][ci[1]].rows[ci[2]][<<"a","r","m","_","a","n","g","l","e">>])[1] + SumArm(S \ {ci})

\* v is the average of the 2025 arm angles of player id
IsAverage2025(v, id) ==
  /\ ArmRows2025(id) # {}
  /\ IsFinite(v)
  /\ v[1] * Cardinality(ArmRows2025(id)) = SumArm(ArmRows2025(id)) * v[2]

SamePitches(a, b) ==
  /\ Len(a) = Len(b)
  /\ \E f \in IndexPermutations(Len(a)) : \A i \in 1..Len(a) : a[i] = b[f[i]]

AfterFallback == pc \in {"sort", "write", "done"} /\ rawState = "ok"

Borrows(P) ==
  /\ dataset = DS2026st
  /\ \A i \in 1..Len(MergedOf(P, Len(combinedRows))) :
       IsNullish(MergedOf(P, Len(combinedRows))[i].arm_angle)
  /\ ArmRows2025(pitchers[P].mlbam_id) # {}

\* C3: in a 2026st build a pitcher none of whose merged entries has a non-null
\* arm_angle, and whose mlbam_id has 2025 arm angles, gets their average in
\* every entry and arm_angle_source "2025"; every other pitcher, and every
\* pitcher of another dataset, keeps source "dataset" and the entries as merged.
C3_ArmAngleFallback ==
  AfterFallback =>
    \A P \in DOMAIN pitchers :
      LET merged == MergedOf(P, Len(combinedRows))
          p == pitchers[P]
      IN IF Borrows(P)
         THEN /\ p.arm_angle_source = "2025"
              /\ \A i \in 1..Len(p.pitches) : IsAverage2025(p.pitches[i].arm_angle, p.mlbam_id)
              /\ SamePitches([i \in 1..Len(p.pitches) |->
                                [p.pitches[i] EXCEPT !.arm_angle = Undefined]],
                             [i \in 1..Len(merged) |->
                                [merged[i] EXCEPT !.arm_angle = Undefined]])
         ELSE /\ p.arm_angle_source = "dataset"
              /\ SamePitches(p.pitches, merged)

\* a pitcher that borrows beside one that keeps its own arm angle
C3_Witness ==
  /\ AfterFallback
  /\ \E P, Q \in DOMAIN pitchers :
       /\ pitchers[P].arm_angle_source = "2025"
       /\ pitchers[P].pitches[1].arm_angle = <<45, 2>>
       /\ pitchers[Q].arm_angle_source = "dataset"

\* the normalized form expected for each name of the inputs
ExpectedNormalized ==
  [n \in {<<"A","-","b">>, <<"c">>, <<"a"," "," ","b">>, <<"C",".">>, <<"A"," ","B">>, <<"z","z">>} |->
     CASE n \in {<<"A","-","b">>, <<"a"," "," ","b">>, <<"A"," ","B">>} -> <<"a"," ","b">>
       [] n \in {<<"c">>, <<"C",".">>} -> <<"c">>
       [] n = <<"z","z">> -> <<"z","z">>]

\* the Savant rows in the order the exports are read: by ALL_PITCH_CODES, then
\* by row
RECURSIVE SavantRowsFrom(_)
SavantRowsFrom(k) ==
  IF k > Len(ALL_PITCH_CODES) THEN <<>>
  ELSE (IF ALL_PITCH_CODES[k] \in DOMAIN savant THEN savant[ALL_PITCH_CODES[k]].rows ELSE <<>>)
       \o SavantRowsFrom(k + 1)

\* the positions of the Savant rows that associate an id with the name n
RowsNaming(n) ==
  {i \in 1..Len(SavantRowsFrom(1)) :
     /\ SavantRowsFrom(1)[i][<<"p","l","a","y","e","r","_","i","d">>] # <<>>
     /\ ExpectedNormalized[SavantRowsFrom(1)[i][<<"p","l","a","y","e","r","_","n","a","m","e">>]] = ExpectedNormalized[n]}

LastOf(S) == CHOOSE i \in S : \A j \in S : j <= i

\* C4: in a 2026st build a record's mlbam_id is the player id the Savant
\* exports associate with the normalized form of the pitcher's name when they
\* associate one, and the record's pitcher_id otherwise; in every other dataset
\* mlbam_id equals pitcher_id.
C4_MlbamId ==
  \A P \in DOMAIN pitchers :
    LET p == pitchers[P]
    IN IF dataset = DS2026st /\ RowsNaming(p.pitcher_name) # {}
       THEN p.mlbam_id = SavantRowsFrom(1)[LastOf(RowsNaming(p.pitcher_name))][<<"p","l","a","y","e","r","_","i","d">>]
       ELSE p.mlbam_id = p.pitcher_id

\* a record whose name is spelled differently in the exports
C4_Witness ==
  \E P \in DOMAIN pitchers :
    /\ pitchers[P].pitcher_name = <<"A","-","b">>
    /\ pitchers[P].mlbam_id = <<"9">>
    /\ pitchers[P].pitcher_id = <<"7">>

\* a >= b on the numbers of the build; false when either is NaN
AtLeast(a, b) == a # <<0, 0>> /\ b # <<0, 0>> /\ a[1] * b[2] >= b[1] * a[2]

\* C18: after the build each pitcher's pitches are ordered by usage
\* descending: of two consecutive entries the earlier pitch_percent is
\* greater than or equal to the later one, also for rows whose pitch_percent
\* is blank or not numeric.  toNum gives NaN for such rows and the comparator
\* (b.pitch_percent ?? 0) - (a.pitch_percent ?? 0) does not replace NaN:
\* the statement does not hold.
C18_SortedByUsage ==
  (pc \in {"write", "done"} /\ rawState = "ok") =>
    \A id \in DOMAIN pitchers :
      \A i \in 1..(Len(pitchers[id].pitches) - 1) :
        AtLeast(pitchers[id].pitches[i].pitch_percent,
                pitchers[id].pitches[i + 1].pitch_percent)

\* the index file of the dataset, its path written out
WrittenIndex == fs[<<<<"p","u","b","l","i","c">>, <<"d","a","t","a">>, dataset, <<"p","i","t","c","h","e","r","s","_","i","n","d","e","x",".","j","s","o","n">>>>].index

\* the name cells of the combined rows, trimmed, and their place in
\* ascending name order
ExpectedIndexName(cell) == IF cell = <<"c"," ">> THEN <<"c">> ELSE <<"A","-","b">>

NameRank(name) == IF name = <<"A","-","b">> THEN 1 ELSE IF name = <<"c">> THEN 2 ELSE 0

FirstAcceptedOf(P) ==
  CHOOSE i \in AcceptedOf(P, Len(combinedRows)) :
    \A j \in AcceptedOf(P, Len(combinedRows)) : i <= j

\* C19: the index written by the build lists its entries in ascending
\* pitcher_name order, each entry holds only pitcher_id and pitcher_name,
\* and the name of an entry is the name of the first accepted combined row
\* of that pitcher id.
C19_IndexSortedByName ==
  BuildWrote =>
    /\ \A i \in 1..Len(WrittenIndex) :
         /\ DOMAIN WrittenIndex[i] = {"pitcher_id", "pitcher_name"}
         /\ AcceptedOf(WrittenIndex[i].pitcher_id, Len(combinedRows)) # {}
         /\ WrittenIndex[i].pitcher_name =
              ExpectedIndexName(combinedRows[FirstAcceptedOf(WrittenIndex[i].pitcher_id)]
                                  [<<"p","i","t","c","h","e","r","_","n","a","m","e">>])
         /\ NameRank(WrittenIndex[i].pitcher_name) > 0
    /\ \A i \in 1..(Len(WrittenIndex) - 1) :
         NameRank(WrittenIndex[i].pitcher_name) <= NameRank(WrittenIndex[i + 1].pitcher_name)

\* the pitcher met second comes first in the index, under the name of its
\* first row and not of its second
C19_Witness ==
  /\ BuildWrote
  /\ Len(WrittenIndex) = 2
  /\ order = <<<<"7">>, <<"8">>>>
  /\ WrittenIndex[1].pitcher_id = <<"8">>
  /\ WrittenIndex[1].pitcher_name = <<"A","-","b">>
  /\ WrittenIndex[2].pitcher_name = <<"c">>

\* C20: a build whose data/raw/<dataset> folder is missing, or holds no
\* pitchmovementdata.csv, ends in its first step without an exception and
\* leaves every file and every directory under public/data as it found them
C20_SkipLeavesOutput ==
  [][(pc = "start" /\ rawState \in {"nodir", "nocsv"})
       => (pc' = "done" /\ fs' = fs /\ dirs' = dirs)]_vars

\* a skipped build has returned and the earlier output is still there
C20_Witness ==
  /\ pc = "done"
  /\ rawState = "nocsv"
  /\ indexPathOf(dataset) \in DOMAIN fs
  /\ outPitchersDirOf(dataset) \in dirs

(***************************************************************************)
(* Properties of the map builders                                          *)
(***************************************************************************)
\* The columns expected for each header of the inputs, read off the header
\* by hand: the id column, <<>> when the file has none the builder accepts,
\* and the name column.
ExpectedSavantIdColumn ==
  [h \in SavantColumnSets |->
     CASE h = <<<<"p","l","a","y","e","r","_","i","d">>, <<"p","i","t","c","h","e","r","_","i","d">>, <<"p","l","a","y","e","r","_","n","a","m","e">>>> -> <<"p","l","a","y","e","r","_","i","d">>
       [] h = <<<<"m","l","b","_","i","d">>, <<"E","n","t","i","t","y"," ","I","D">>, <<"N","a","m","e">>>> -> <<"E","n","t","i","t","y"," ","I","D">>
       [] h = <<<<"x">>, <<"y">>, <<"p","l","a","y","e","r">>>> -> <<>>
       [] h = <<<<"P","l","a","y","e","r">>, <<"I","D">>, <<"i","d">>>> -> <<"I","D">>]

ExpectedSavantNameColumn ==
  [h \in SavantColumnSets |->
     CASE h = <<<<"p","l","a","y","e","r","_","i","d">>, <<"p","i","t","c","h","e","r","_","i","d">>, <<"p","l","a","y","e","r","_","n","a","m","e">>>> -> <<"p","l","a","y","e","r","_","n","a","m","e">>
       [] h = <<<<"m","l","b","_","i","d">>, <<"E","n","t","i","t","y"," ","I","D">>, <<"N","a","m","e">>>> -> <<"N","a","m","e">>
       [] h = <<<<"x">>, <<"y">>, <<"p","l","a","y","e","r">>>> -> <<"p","l","a","y","e","r">>
       [] h = <<<<"P","l","a","y","e","r">>, <<"I","D">>, <<"i","d">>>> -> <<"P","l","a","y","e","r">>]

ExpectedSpinIdColumn ==
  [h \in SpinColumnSets |->
     CASE h = <<<<"m","l","b","_","i","d">>, <<"e","n","t","i","t","y","_","i","d">>, <<"a","c","t","i","v","e","_","s","p","i","n","_","f","o","u","r","s","e","a","m">>, <<"A","c","t","i","v","e"," ","S","p","i","n"," ","F","F">>>> -> <<"m","l","b","_","i","d">>
       [] h = <<<<"x">>, <<"E","n","t","i","t","y","I","D">>, <<"a","c","t","i","v","e","_","s","p","i","n","_","s","l","i","d","e","r">>, <<"a","c","t","i","v","e","_","s","p","i","n","_","z","z">>>> -> <<"E","n","t","i","t","y","I","D">>
       [] h = <<<<"x">>, <<"y">>, <<"a","c","t","i","v","e","_","s","p","i","n","_","f","o","u","r","s","e","a","m">>, <<"a","c","t","i","v","e","_","s","p","i","n","_","f","f">>>> -> <<>>
       [] h = <<<<"P","l","a","y","e","r"," ","I","D">>, <<"i","d">>, <<"s","p","i","n","_","a">>, <<"s","p","i","n","_","b">>>> -> <<"P","l","a","y","e","r"," ","I","D">>]

ExpectedName ==
  [n \in {<<"a"," "," ","b">>, <<"A","-","b">>, <<"7">>} |-> IF n = <<"7">> THEN <<"7">> ELSE <<"a"," ","b">>]

ExpectedMetrics(r) ==
  IF r[<<"s","p","i","n","_","r","a","t","e">>] = <<"1">>
  THEN [spin_rate |-> <<1, 1>>, arm_angle |-> Null]
  ELSE [spin_rate |-> <<2, 1>>, arm_angle |-> <<30, 1>>]

ColumnsOf(file) == SubSeq(file.header, 1, 3)

\* the files of a directory the builders read rows from
ReadFrom(dir) == {c \in DOMAIN dir : dir[c] # TinyFile /\ dir[c].rows # <<>>}

\* the id a row gives, "" when the file has no accepted id column
ExpectedId(file, i) ==
  IF ExpectedSavantIdColumn[ColumnsOf(file)] = <<>> THEN <<>>
  ELSE trim(file.rows[i][ExpectedSavantIdColumn[ColumnsOf(file)]])

RowsWithId(file, id) == {i \in 1..Len(file.rows) : ExpectedId(file, i) = id}

IdsOf(file) == {ExpectedId(file, i) : i \in 1..Len(file.rows)} \ {<<>>}

\* the rows that set a name, in the order they are processed
RECURSIVE NamingRowsFrom(_)
NamingRowsFrom(k) ==
  IF k > Len(ALL_PITCH_CODES) THEN <<>>
  ELSE (IF ALL_PITCH_CODES[k] \in ReadFrom(savant)
        THEN LET file == savant[ALL_PITCH_CODES[k]]
             IN SelectSeq([i \in 1..Len(file.rows) |->
                             [id |-> ExpectedId(file, i),
                              name |-> ExpectedName[file.rows[i][ExpectedSavantNameColumn[ColumnsOf(file)]]]]],
                          LAMBDA x : x.id # <<>>)
        ELSE <<>>)
       \o NamingRowsFrom(k + 1)

\* C5: last write wins.  The entry kept for (id, code) is the one of the last
\* row of the code's file with that id, and the name-to-id map holds, for each
\* normalized name, the id of the last row processed with that name.
C5_LastWriteWins ==
  pc = "enriched" =>
    /\ \A c \in ReadFrom(savant) : \A id \in IdsOf(savant[c]) :
         /\ id \in DOMAIN enrichMap
         /\ c \in DOMAIN enrichMap[id]
         /\ enrichMap[id][c] = ExpectedMetrics(savant[c].rows[LastOf(RowsWithId(savant[c], id))])
    /\ \A k \in 1..Len(NamingRowsFrom(1)) :
         LET n == NamingRowsFrom(1)[k].name
             same == {j \in 1..Len(NamingRowsFrom(1)) : NamingRowsFrom(1)[j].name = n}
         IN /\ n \in DOMAIN nameToId
            /\ nameToId[n] = NamingRowsFrom(1)[LastOf(same)].id

\* an id with two rows of different metrics in one file, and a name that two
\* files give to different ids
C5_Witness ==
  /\ pc = "enriched"
  /\ \E c \in ReadFrom(savant) : \E id \in IdsOf(savant[c]) :
       \E i, j \in RowsWithId(savant[c], id) :
         i < j /\ ExpectedMetrics(savant[c].rows[i]) # ExpectedMetrics(savant[c].rows[j])
  /\ \E j, k \in 1..Len(NamingRowsFrom(1)) :
       /\ j < k
       /\ NamingRowsFrom(1)[j].name = NamingRowsFrom(1)[k].name
       /\ NamingRowsFrom(1)[j].id # NamingRowsFrom(1)[k].id

SpinIdsOf(file) ==
  IF ExpectedSpinIdColumn[file.header] = <<>> THEN {}
  ELSE {trim(file.rows[i][ExpectedSpinIdColumn[file.header]]) : i \in 1..Len(file.rows)} \ {<<>>}

\* C6: first match wins.  The ids of a map are read from the first column of
\* the header whose normalized name is an accepted id name; a Savant file with
\* no such column is read under "player_id", which it does not have, and gives
\* no id, and an active-spin.csv with no such column gives an empty map.
C6_FirstIdColumn ==
  /\ pc = "enriched" =>
       DOMAIN enrichMap = UNION {IdsOf(savant[c]) : c \in ReadFrom(savant)}
  /\ pc = "armed" =>
       /\ raw2025 = <<>> => armAngle2025 = EmptyMap
       /\ raw2025 # <<>> =>
            DOMAIN armAngle2025 \subseteq UNION {IdsOf(raw2025[1][c]) : c \in ReadFrom(raw2025[1])}
       /\ raw2025 # <<>> =>
            \A c \in ReadFrom(raw2025[1]) : \A i \in 1..Len(raw2025[1][c].rows) :
              (ExpectedId(raw2025[1][c], i) # <<>> /\ raw2025[1][c].rows[i][<<"a","r","m","_","a","n","g","l","e">>] # <<>>)
                => ExpectedId(raw2025[1][c], i) \in DOMAIN armAngle2025
  /\ pc = "spun" =>
       /\ spinFile = <<>> => activeSpinMap = EmptyMap
       /\ spinFile # <<>> =>
            /\ DOMAIN activeSpinMap \subseteq SpinIdsOf(spinFile[1])
            /\ ExpectedSpinIdColumn[spinFile[1].header] = <<>> => activeSpinMap = EmptyMap
            /\ \A i \in 1..Len(spinFile[1].rows) :
                 LET r == spinFile[1].rows[i]
                     h == spinFile[1].header
                 IN (/\ ExpectedSpinIdColumn[h] # <<>>
                     /\ r[ExpectedSpinIdColumn[h]] # <<>>
                     /\ h[3] \in {<<"a","c","t","i","v","e","_","s","p","i","n","_","f","o","u","r","s","e","a","m">>, <<"a","c","t","i","v","e","_","s","p","i","n","_","s","l","i","d","e","r">>}
                     /\ r[h[3]] # <<>>)
                    => r[ExpectedSpinIdColumn[h]] \in DOMAIN activeSpinMap

\* a Savant file and an active-spin.csv with two id columns each, read under
\* the first, and files with none
C6_WitnessFirst ==
  \/ /\ pc = "enriched"
     /\ ColumnsOf(savant[<<"F","F">>]) = <<<<"P","l","a","y","e","r">>, <<"I","D">>, <<"i","d">>>>
     /\ <<"8">> \in DOMAIN enrichMap
     /\ <<"S","L">> \in DOMAIN savant
     /\ ColumnsOf(savant[<<"S","L">>]) = <<<<"x">>, <<"y">>, <<"p","l","a","y","e","r">>>>
     /\ Cardinality(DOMAIN enrichMap) = 1
  \/ /\ pc = "spun"
     /\ spinFile # <<>>
     /\ spinFile[1].header[1] = <<"m","l","b","_","i","d">>
     /\ <<"7">> \in DOMAIN activeSpinMap

(***************************************************************************)
(* Claims about the validation script                                      *)
(***************************************************************************)
\* C7: after a build that completed for a dataset, the index file and the
\* pitchers directory the validation script reads are the index file and the
\* pitchers directory that build run wrote, so the script does not stop on a
\* missing path.  The dataset build writes under public/data/<dataset> and
\* the script reads under public/data: the statement does not hold.
C7_ValidatorReadsBuildOutput ==
  (BuildWrote /\ vpc # "idle") =>
    /\ validateIdxPath = indexPathOf(dataset)
    /\ validateDir = outPitchersDirOf(dataset)
    /\ vpc # "threw"

\* the file <pitcher_id>.json of the two ids, written out
ExpectedPitcherFile(id) ==
  IF id = <<"7">> THEN <<<<"p","u","b","l","i","c">>, <<"d","a","t","a">>, <<"p","i","t","c","h","e","r","s">>, <<"7",".","j","s","o","n">>>>
  ELSE <<<<"p","u","b","l","i","c">>, <<"d","a","t","a">>, <<"p","i","t","c","h","e","r","s">>, <<"8",".","j","s","o","n">>>>

Checked == 1..(vpos - 1)

FileOfEntry(i) == ExpectedPitcherFile(vindex[i].pitcher_id)

MissingEntries == {i \in Checked : FileOfEntry(i) \notin DOMAIN fs}

HasPitchesField(i) == "pitches" \in DOMAIN fs[FileOfEntry(i)].pitcher

ZeroLengthList(i) ==
  /\ HasPitchesField(i)
  /\ fs[FileOfEntry(i)].pitcher.pitches = [type |-> "array", items |-> <<>>]

NullPitches(i) ==
  /\ HasPitchesField(i)
  /\ fs[FileOfEntry(i)].pitcher.pitches = [type |-> "null"]

\* the entries the statement counts as empty
EmptyAsStated ==
  {i \in Checked : FileOfEntry(i) \in DOMAIN fs /\ (~HasPitchesField(i) \/ ZeroLengthList(i))}

EmptyEntries ==
  {i \in Checked : FileOfEntry(i) \in DOMAIN fs
                     /\ (~HasPitchesField(i) \/ NullPitches(i) \/ ZeroLengthList(i))}

PathsExist ==
  /\ <<<<"p","u","b","l","i","c">>, <<"d","a","t","a">>, <<"p","i","t","c","h","e","r","s","_","i","n","d","e","x",".","j","s","o","n">>>> \in DOMAIN fs
  /\ <<<<"p","u","b","l","i","c">>, <<"d","a","t","a">>, <<"p","i","t","c","h","e","r","s">>>> \in dirs

ThrowsBeforeCounting ==
  /\ (vpc # "idle" /\ ~PathsExist) => vpc = "threw"
  /\ vpc = "threw" => (~PathsExist /\ missing = 0 /\ empty = 0 /\ vpos = 0)

\* C8 as stated: empty is the number of index entries whose file exists but
\* has no pitches field or a zero-length pitches list.  A file whose pitches
\* value is null is counted as empty too, so the count as stated is too small.
C8_CountsAsStated ==
  vpc \in {"loop", "done"} =>
    /\ missing = Cardinality(MissingEntries)
    /\ empty = Cardinality(EmptyAsStated)

\* C8: missing is the number of index entries for which no <pitcher_id>.json
\* exists; empty is the number of index entries whose file exists and has no
\* pitches field, a null pitches value or a zero-length pitches list; no
\* entry is counted twice, so missing + empty never exceeds the index length;
\* the script throws before counting anything when the index file or the
\* pitchers directory does not exist.
C8_ValidatorCounts ==
  /\ ThrowsBeforeCounting
  /\ vpc \in {"loop", "done"} =>
       /\ vindex = fs[<<<<"p","u","b","l","i","c">>, <<"d","a","t","a">>, <<"p","i","t","c","h","e","r","s","_","i","n","d","e","x",".","j","s","o","n">>>>].index
       /\ missing = Cardinality(MissingEntries)
       /\ empty = Cardinality(EmptyEntries)
       /\ MissingEntries \cap EmptyEntries = {}
       /\ missing + empty <= Len(vindex)
       /\ vpc = "done" => vpos = Len(vindex) + 1

\* the report of an index of two entries, one counted missing, one empty
C8_Witness ==
  /\ vpc = "done"
  /\ Len(vindex) = 2
  /\ missing = 1
  /\ empty = 1
  /\ \E i \in Checked : FileOfEntry(i) \in DOMAIN fs /\ NullPitches(i)

(***************************************************************************)
(* Claims about the player route                                           *)
(***************************************************************************)
Returned200 == rpc = "done" /\ response.status = 200

\* C9: every status 200 response of the route contains the fields id,
\* fullName, teamId, teamName, throws, age, height and weight, where age and
\* weight are a number or null, height is a string or null and throws is
\* "R", "L", "S" or null, whatever the upstream person contains.  The route
\* passes any throwsHand or pitchHand code through: the statement does not hold.
C9_ResponseShape ==
  Returned200 =>
    /\ {"id", "fullName", "teamId", "teamName", "throws", "age", "height", "weight"}
         \subseteq DOMAIN response.body
    /\ response.body.age.type \in {"number", "null"}
    /\ response.body.weight.type \in {"number", "null"}
    /\ response.body.height.type \in {"string", "null"}
    /\ response.body.throws \in
         {[type |-> "string", value |-> "R"], [type |-> "string", value |-> "L"],
          [type |-> "string", value |-> "S"], [type |-> "null"]}

\* the two upstream URLs of the player ids, written out
ExpectedUrlA ==
  IF rawId = <<"6","6","0","2","7","1">>
  THEN <<"h","t","t","p","s",":","/","/","s","t","a","t","s","a","p","i",".","m","l","b",".","c","o","m","/","a","p","i","/","v","1","/","p","e","o","p","l","e","/","6","6","0","2","7","1","?","h","y","d","r","a","t","e","=","c","u","r","r","e","n","t","T","e","a","m">>
  ELSE <<"h","t","t","p","s",":","/","/","s","t","a","t","s","a","p","i",".","m","l","b",".","c","o","m","/","a","p","i","/","v","1","/","p","e","o","p","l","e","/","1","2","3","?","h","y","d","r","a","t","e","=","c","u","r","r","e","n","t","T","e","a","m">>

ExpectedUrlB ==
  IF rawId = <<"6","6","0","2","7","1">>
  THEN <<"h","t","t","p","s",":","/","/","s","t","a","t","s","a","p","i",".","m","l","b",".","c","o","m","/","a","p","i","/","v","1","/","p","e","o","p","l","e","?","p","e","r","s","o","n","I","d","s","=","6","6","0","2","7","1","&","h","y","d","r","a","t","e","=","c","u","r","r","e","n","t","T","e","a","m">>
  ELSE <<"h","t","t","p","s",":","/","/","s","t","a","t","s","a","p","i",".","m","l","b",".","c","o","m","/","a","p","i","/","v","1","/","p","e","o","p","l","e","?","p","e","r","s","o","n","I","d","s","=","1","2","3","&","h","y","d","r","a","t","e","=","c","u","r","r","e","n","t","T","e","a","m">>

FirstReceived == respA.type = "response"

\* C10: the route requests people/{id} first and requests people?personIds=
\* if and only if the first response is not ok, never before the first
\* response has been received; the source field of a 200 response is
\* "people/{id}" exactly when the first response was ok and
\* "people?personIds=" otherwise.
C10_FallbackOrder ==
  /\ Len(requests) <= 2
  /\ Len(requests) >= 1 => requests[1] = ExpectedUrlA
  /\ Len(requests) = 2 => (requests[2] = ExpectedUrlB /\ FirstReceived /\ ~respA.ok)
  /\ (FirstReceived /\ ~respA.ok) => Len(requests) = 2
  /\ rpc \in {"awaitA", "awaitB"} => Len(requests) >= 1
  /\ Returned200 =>
       /\ FirstReceived
       /\ response.body.source = IF respA.ok THEN "people/{id}" ELSE "people?personIds="
       /\ ~respA.ok => (respB.type = "response" /\ respB.ok)

\* a 200 response built from the second endpoint after a first response not ok
C10_Witness ==
  /\ Returned200
  /\ ~respA.ok
  /\ Len(requests) = 2
  /\ response.body.source = "people?personIds="
  /\ rawId = <<"p","-","1","2","a","3">>

\* the body of an upstream response parses to JSON with a people[0] object
HasPerson(r) ==
  /\ r.text.parses
  /\ "people" \in DOMAIN r.text.value
  /\ Len(r.text.value.people.items) >= 1
  /\ r.text.value.people.items[1].type = "object"

\* the body does not parse, or has no people[0]
NoPerson(r) ==
  \/ ~r.text.parses
  \/ "people" \notin DOMAIN r.text.value
  \/ Len(r.text.value.people.items) = 0

SecondReceived == respB.type = "response"

\* C13: the route returns 200 only when the upstream response it uses is ok
\* and its body parses to JSON with a people[0] element; it returns 502
\* "MLB API error" with both upstream statuses when both requests are not
\* ok, and 502 "No person returned from MLB API" when the first response is
\* ok without people[0] or without valid JSON, the second endpoint then not
\* being requested.
C13_RouteErrors ==
  /\ Returned200 =>
       \/ (FirstReceived /\ respA.ok /\ HasPerson(respA))
       \/ (FirstReceived /\ ~respA.ok /\ SecondReceived /\ respB.ok /\ HasPerson(respB))
  /\ (rpc = "done" /\ FirstReceived /\ ~respA.ok /\ SecondReceived /\ ~respB.ok) =>
       /\ response.status = 502
       /\ response.body.error = "MLB API error"
       /\ response.body.statusA = [type |-> "number", value |-> respA.status]
       /\ response.body.statusB = [type |-> "number", value |-> respB.status]
  /\ (rpc = "done" /\ FirstReceived /\ respA.ok /\ NoPerson(respA)) =>
       /\ response.status = 502
       /\ response.body.error = "No person returned from MLB API"
       /\ ~SecondReceived
       /\ Len(requests) = 1

\* an ok first response whose body is no JSON ends in 502 without a second request
C13_Witness ==
  /\ rpc = "done"
  /\ FirstReceived
  /\ respA.ok
  /\ ~respA.text.parses
  /\ response.status = 502
  /\ Len(requests) = 1

DecimalDigits == {"0", "1", "2", "3", "4", "5", "6", "7", "8", "9"}

\* all digit runs of each raw parameter concatenated in order, written out
ExpectedDigits ==
  IF rawId = <<"6","6","0","2","7","1">> THEN <<"6","6","0","2","7","1">>
  ELSE IF rawId = <<"p","-","1","2","a","3">> THEN <<"1","2","3">>
  ELSE <<>>

\* C14: the id put into every upstream URL is non-empty and made of decimal
\* digits only, the digit runs of the raw parameter concatenated in order;
\* a raw parameter without a digit gives 400 "Invalid player id" and no
\* upstream request.
C14_DigitsOnlyId ==
  /\ \A i \in 1..Len(requests) :
       /\ ExpectedDigits # <<>>
       /\ \A k \in 1..Len(ExpectedDigits) : ExpectedDigits[k] \in DecimalDigits
       /\ requests[i] \in
            {<<"h","t","t","p","s",":","/","/","s","t","a","t","s","a","p","i",".","m","l","b",".","c","o","m","/","a","p","i","/","v","1","/","p","e","o","p","l","e","/">> \o ExpectedDigits
               \o <<"?","h","y","d","r","a","t","e","=","c","u","r","r","e","n","t","T","e","a","m">>,
             <<"h","t","t","p","s",":","/","/","s","t","a","t","s","a","p","i",".","m","l","b",".","c","o","m","/","a","p","i","/","v","1","/","p","e","o","p","l","e","?","p","e","r","s","o","n","I","d","s","=">> \o ExpectedDigits
               \o <<"&","h","y","d","r","a","t","e","=","c","u","r","r","e","n","t","T","e","a","m">>}
  /\ (rpc # "start" /\ ExpectedDigits = <<>>) =>
       /\ rpc = "done"
       /\ response.status = 400
       /\ response.body.error = "Invalid player id"
       /\ requests = <<>>
  /\ (rpc = "done" /\ response.status = 400) => ExpectedDigits = <<>>

\* both endpoints were requested with the digits of a parameter that
\* holds other characters
C14_Witness ==
  /\ rawId = <<"p","-","1","2","a","3">>
  /\ Len(requests) = 2
  /\ requests[1] = <<"h","t","t","p","s",":","/","/","s","t","a","t","s","a","p","i",".","m","l","b",".","c","o","m","/","a","p","i","/","v","1","/","p","e","o","p","l","e","/","1","2","3","?","h","y","d","r","a","t","e","=","c","u","r","r","e","n","t","T","e","a","m">>
  /\ requests[2] = <<"h","t","t","p","s",":","/","/","s","t","a","t","s","a","p","i",".","m","l","b",".","c","o","m","/","a","p","i","/","v","1","/","p","e","o","p","l","e","?","p","e","r","s","o","n","I","d","s","=","1","2","3","&","h","y","d","r","a","t","e","=","c","u","r","r","e","n","t","T","e","a","m">>

(***************************************************************************)
(* Claims about the scrapers and the update script                         *)
(***************************************************************************)
\* the fixed order of the 13 pitch filters, written out
ExpectedFilters ==
  <<<<"F","F","|">>, <<"S","I","|">>, <<"F","C","|">>, <<"C","H","|">>, <<"F","S","|">>, <<"F","O","|">>, <<"S","C","|">>, <<"C","U","|">>, <<"K","C","|">>, <<"C","S","|">>, <<"S","L","|">>,
    <<"S","T","|">>, <<"S","V","|">>>>

ExpectedSavantFiles ==
  <<<<"s","a","v","a","n","t","_","2","0","2","6","s","t","_","F","F",".","c","s","v">>, <<"s","a","v","a","n","t","_","2","0","2","6","s","t","_","S","I",".","c","s","v">>, <<"s","a","v","a","n","t","_","2","0","2","6","s","t","_","F","C",".","c","s","v">>,
    <<"s","a","v","a","n","t","_","2","0","2","6","s","t","_","C","H",".","c","s","v">>, <<"s","a","v","a","n","t","_","2","0","2","6","s","t","_","F","S",".","c","s","v">>, <<"s","a","v","a","n","t","_","2","0","2","6","s","t","_","F","O",".","c","s","v">>,
    <<"s","a","v","a","n","t","_","2","0","2","6","s","t","_","S","C",".","c","s","v">>, <<"s","a","v","a","n","t","_","2","0","2","6","s","t","_","C","U",".","c","s","v">>, <<"s","a","v","a","n","t","_","2","0","2","6","s","t","_","K","C",".","c","s","v">>,
    <<"s","a","v","a","n","t","_","2","0","2","6","s","t","_","C","S",".","c","s","v">>, <<"s","a","v","a","n","t","_","2","0","2","6","s","t","_","S","L",".","c","s","v">>, <<"s","a","v","a","n","t","_","2","0","2","6","s","t","_","S","T",".","c","s","v">>,
    <<"s","a","v","a","n","t","_","2","0","2","6","s","t","_","S","V",".","c","s","v">>>>

\* the files this run wrote: a file left by an earlier run holds "old"
WrittenByRun == {name \in DOMAIN rawFiles : rawFiles[name] # "old"}

OkAnswered == {i \in 1..Len(sresponses) : sresponses[i].ok}

\* C11: the Savant scraper requests the 13 pitch codes one at a time in the
\* fixed order and writes savant_2026st_<code>.csv only after that code's
\* response was ok; on the first response not ok it exits with code 1,
\* keeping the files written for earlier codes and writing no file for the
\* failing code or any later code.
C11_SavantOneAtATime ==
  /\ Len(srequests) <= 13
  /\ \A i \in 1..Len(srequests) : srequests[i].hfPT = ExpectedFilters[i]
  /\ Len(sresponses) <= Len(srequests)
  /\ Len(srequests) <= Len(sresponses) + 1
  /\ WrittenByRun = {ExpectedSavantFiles[i] : i \in OkAnswered}
  /\ \A name \in WrittenByRun : rawFiles[name] = "csv"
  /\ \A i \in 1..Len(sresponses) : ~sresponses[i].ok => i = Len(sresponses)
  /\ spc = "exit1" <=> (sresponses # <<>> /\ ~sresponses[Len(sresponses)].ok)
  /\ spc = "exit1" => Len(srequests) = Len(sresponses)
  /\ spc = "exit0" => (Len(sresponses) = 13 /\ OkAnswered = 1..13)

\* the run stops at the third code, after two files were written, and a
\* file of an earlier run for a later code is still the old one
C11_Witness ==
  /\ spc = "exit1"
  /\ Len(sresponses) = 3
  /\ WrittenByRun = {<<"s","a","v","a","n","t","_","2","0","2","6","s","t","_","F","F",".","c","s","v">>, <<"s","a","v","a","n","t","_","2","0","2","6","s","t","_","S","I",".","c","s","v">>}
  /\ <<"s","a","v","a","n","t","_","2","0","2","6","s","t","_","S","V",".","c","s","v">> \in DOMAIN rawFiles
  /\ rawFiles[<<"s","a","v","a","n","t","_","2","0","2","6","s","t","_","S","V",".","c","s","v">>] = "old"

\* the session id of each app shell, written out; <<>> where there is none
ExpectedSession ==
  IF thtml = <<"<","a"," ","h","r","e","f","=","'","/","s","e","s","s","i","o","n","/","0","1","2","3","4","5","6","7","8","9","a","b","c","d","e","f","0","1","2","3","/","x","'",">">> THEN <<"0","1","2","3","4","5","6","7","8","9","a","b","c","d","e","f","0","1","2","3">>
  ELSE IF thtml = <<"/","S","E","S","S","I","O","N","/","0","1","2","3","4","5","6","7","8","9","A","B","C","D","E","F","0","1","2","3","a","b","/">> THEN <<"0","1","2","3","4","5","6","7","8","9","A","B","C","D","E","F","0","1","2","3","a","b">>
  ELSE IF thtml = <<"/","s","e","s","s","i","o","n","/","a","b","c","/"," ","/","s","e","s","s","i","o","n","/","a","a","a","a","a","a","a","a","a","a","a","a","a","a","a","a","a","a","a","a","a","/">> THEN <<"a","a","a","a","a","a","a","a","a","a","a","a","a","a","a","a","a","a","a","a","a">>
  ELSE IF thtml = <<"/","s","e","s","s","i","o","n","/","b","b","b","b","b","b","b","b","b","b","b","b","b","b","b","b","b","b","b","b","/"," ","/","s","e","s","s","i","o","n","/","c","c","c","c","c","c","c","c","c","c","c","c","c","c","c","c","c","c","c","c","/">>
    THEN <<"b","b","b","b","b","b","b","b","b","b","b","b","b","b","b","b","b","b","b","b">>
  ELSE IF thtml = <<"/","s","e","s","s","i","o","n","/","/","s","e","s","s","i","o","n","/","d","d","d","d","d","d","d","d","d","d","d","d","d","d","d","d","d","d","d","d","d","d","d","d","/">>
    THEN <<"d","d","d","d","d","d","d","d","d","d","d","d","d","d","d","d","d","d","d","d","d","d","d","d">>
  ELSE IF thtml = <<"x","/","S","e","s","s","i","o","n","/","0","0","0","0","0","0","0","0","0","0","0","0","0","0","0","0","0","0","0","0","/">> THEN <<"0","0","0","0","0","0","0","0","0","0","0","0","0","0","0","0","0","0","0","0">>
  ELSE <<>>

HtmlOk == Len(tresponses) >= 1 /\ tresponses[1].ok

CsvOk == Len(tresponses) = 2 /\ tresponses[2].ok

CombinedSaved ==
  /\ <<"p","i","t","c","h","m","o","v","e","m","e","n","t","d","a","t","a",".","c","s","v">> \in DOMAIN rawFiles
  /\ rawFiles[<<"p","i","t","c","h","m","o","v","e","m","e","n","t","d","a","t","a",".","c","s","v">>] # "old"

\* C12: the TJStats scraper requests the combined CSV only after a session
\* id (at least 20 hex characters inside a /session/<id>/ path, matched
\* without regard to case) was extracted from the app-shell HTML and uses
\* that id in the download URL; when no session id is found or either
\* response is not ok it exits with code 1 and pitchmovementdata.csv is
\* neither created nor overwritten.
C12_SessionBeforeDownload ==
  /\ Len(trequests) <= 2
  /\ Len(trequests) >= 1 => trequests[1] = <<"h","t","t","p","s",":","/","/","n","e","s","t","i","c","o","t","-","m","l","b","-","p","i","t","c","h","i","n","g","-","a","p","p",".","h","f",".","s","p","a","c","e","/">>
  /\ Len(trequests) = 2 =>
       /\ HtmlOk
       /\ ExpectedSession # <<>>
       /\ Len(ExpectedSession) >= 20
       /\ tsession = ExpectedSession
       /\ trequests[2] = <<"h","t","t","p","s",":","/","/","n","e","s","t","i","c","o","t","-","m","l","b","-","p","i","t","c","h","i","n","g","-","a","p","p",".","h","f",".","s","p","a","c","e","/","s","e","s","s","i","o","n","/">>
                           \o ExpectedSession \o <<"/","d","o","w","n","l","o","a","d","/","d","o","w","n","l","o","a","d","_","a","l","l","?","w","=">>
  /\ (HtmlOk /\ ExpectedSession # <<>>) => Len(trequests) = 2
  /\ tpc = "exit1" <=>
       \/ (Len(tresponses) >= 1 /\ ~tresponses[1].ok)
       \/ (HtmlOk /\ ExpectedSession = <<>>)
       \/ (Len(tresponses) = 2 /\ ~tresponses[2].ok)
  /\ tpc = "exit1" => ~CombinedSaved
  /\ CombinedSaved <=> tpc = "exit0"
  /\ tpc = "exit0" <=> CsvOk

\* the download was saved under the session id that follows a path too
\* short to be one
C12_Witness ==
  /\ tpc = "exit0"
  /\ thtml = <<"/","s","e","s","s","i","o","n","/","a","b","c","/"," ","/","s","e","s","s","i","o","n","/","a","a","a","a","a","a","a","a","a","a","a","a","a","a","a","a","a","a","a","a","a","/">>
  /\ trequests[2] = <<"h","t","t","p","s",":","/","/","n","e","s","t","i","c","o","t","-","m","l","b","-","p","i","t","c","h","i","n","g","-","a","p","p",".","h","f",".","s","p","a","c","e","/","s","e","s","s","i","o","n","/","a","a","a","a","a","a","a","a","a","a","a","a","a","a","a","a","a","a","a","a","a","/","d","o","w","n","l","o","a","d","/","d","o","w","n","l","o","a","d","_","a","l","l","?","w","=">>
  /\ rawFiles[<<"p","i","t","c","h","m","o","v","e","m","e","n","t","d","a","t","a",".","c","s","v">>] = "csv"

FetchRunning == spc \in {"start", "request", "await"}

BuildStarted == pc # "idle"

\* C17: update2026st runs the Savant fetch and then the 2026st build
\* strictly in sequence: the build starts only after the fetch has
\* terminated, and does not start when the fetch exits with a failure.
C17_FetchThenBuild ==
  /\ BuildStarted => (spc = "exit0" /\ Len(sresponses) = 13 /\ upc \in {"building", "done"})
  /\ BuildStarted => dataset = <<"2","0","2","6","s","t">>
  /\ FetchRunning => (~BuildStarted /\ upc = "fetching")
  /\ spc = "exit1" => (~BuildStarted /\ upc \in {"fetching", "failed"})
  /\ upc = "failed" => (spc = "exit1" /\ ~BuildStarted)
  /\ upc = "done" => (spc = "exit0" /\ pc = "done")

\* the build ran to its end after all thirteen downloads
C17_Witness ==
  /\ upc = "done"
  /\ pc = "done"
  /\ rawState = "ok"
  /\ Len(sresponses) = 13
  /\ DOMAIN fs # {}

(***************************************************************************)
(* Claims about the dashboard page                                         *)
(***************************************************************************)
Settled == indexLoaded /\ inflight = {} /\ selectedId # <<>>

\* C15: once the user has changed the selection any number of times and no
\* fetch is outstanding, the pitcher record and the player meta displayed
\* are those of the selected id, whatever order the responses arrived in.
\* The effects neither cancel nor ignore the fetch of an id that is no
\* longer selected: the statement does not hold.
C15_ShowsSelected ==
  Settled =>
    /\ pitcher.type = "object" => pitcher.pitcher_id = selectedId
    /\ playerMeta.type = "object" => playerMeta.id = selectedId

PitcherOutstanding == \E f \in inflight : f.kind = "pitcher"

\* C16: the loading flag is true whenever a pitcher fetch is outstanding.
\* Any pitcher fetch that completes clears the flag, also while the fetch of
\* a later selection is outstanding: the statement does not hold.
C16_LoadingWhileOutstanding == PitcherOutstanding => loading

(***************************************************************************)
(* C21: the dataset key of a command line                                  *)
(***************************************************************************)
DatasetKeys == {<<"2","0","2","5">>, <<"2","0","2","6","s","t">>, <<"2","0","2","5","a","a","a">>, <<"2","0","2","5","a">>}

\* the key stated for each word
StatedKey ==
  [w \in ArgWords |->
     IF w \in {<<"2","0","2","6">>, <<"2","0","2","6","s","t">>, <<"s","t">>, <<"s","p","r","i","n","g">>} THEN <<"2","0","2","6","s","t">>
     ELSE IF w \in {<<"2","0","2","5","a","a","a">>, <<"a","a","a">>} THEN <<"2","0","2","5","a","a","a">>
     ELSE IF w \in {<<"2","0","2","5","a">>, <<"a">>} THEN <<"2","0","2","5","a">>
     ELSE <<"2","0","2","5">>]

\* s is w up to the case of its letters
SameIgnoringCase(s, w) ==
  /\ Len(s) = Len(w)
  /\ \A i \in 1..Len(w) : s[i] \in {w[i], UpperCh(w[i])}

\* line 410 has run
DatasetComputed == pc # "argv"

\* C21: once main has read its command line, dataset is one of the four keys;
\* an argument that is one of the nine words in any mix of cases gives the key
\* stated for the word, and no argument or any other string gives "2025"
C21_DatasetKeyFromArg ==
  DatasetComputed =>
    /\ dataset \in DatasetKeys
    /\ IF argv # <<>> /\ \E w \in ArgWords : SameIgnoringCase(argv[1], w)
       THEN \A w \in ArgWords : SameIgnoringCase(argv[1], w) => dataset = StatedKey[w]
       ELSE dataset = <<"2","0","2","5">>

\* a word typed with capitals has been read as the spring dataset
C21_Witness ==
  /\ DatasetComputed
  /\ argv = << <<"S","p","r","i","n","g">> >>
  /\ dataset = <<"2","0","2","6","s","t">>

(***************************************************************************)
(* C22: the combined rows main skips                                       *)
(***************************************************************************)
KnownCodes ==
  {<<"F","F">>, <<"S","I">>, <<"F","C">>, <<"C","H">>, <<"F","S">>, <<"F","O">>, <<"S","C">>, <<"C","U">>, <<"K","C">>, <<"C","S">>, <<"S","L">>, <<"S","T">>, <<"S","V">>}

\* the three reasons stated for skipping a row
StatedSkip(r) ==
  \/ trim(Cell(r, <<"p","i","t","c","h","e","r","_","i","d">>)) = <<>>
  \/ trim(Cell(r, <<"p","i","t","c","h","e","r","_","n","a","m","e">>)) = <<>>
  \/ toUpperCase(trim(Cell(r, <<"p","i","t","c","h","_","t","y","p","e">>))) \notin KnownCodes

PitchesOf(ps, id) == IF id \in DOMAIN ps THEN ps[id].pitches ELSE <<>>

\* the loop takes row r: a row with a reason to skip changes nothing of the
\* Map; any other row adds one pitch entry, with the row's code, to the record
\* of the row's pitcher and leaves the other records as they are
RowStep(r) ==
  IF StatedSkip(r)
  THEN pitchers' = pitchers /\ order' = order
  ELSE LET id == trim(Cell(r, <<"p","i","t","c","h","e","r","_","i","d">>))
       IN /\ DOMAIN pitchers' = DOMAIN pitchers \cup {id}
          /\ Len(PitchesOf(pitchers', id)) = Len(PitchesOf(pitchers, id)) + 1
          /\ pitchers'[id].pitches[Len(pitchers'[id].pitches)].code
               = toUpperCase(trim(Cell(r, <<"p","i","t","c","h","_","t","y","p","e">>)))
          /\ \A other \in DOMAIN pitchers \ {id} : pitchers'[other] = pitchers[other]

\* every pitch entry of the Map has a known code with its title and color
EntriesKnown ==
  \A id \in DOMAIN pitchers : \A i \in 1..Len(pitchers[id].pitches) :
    LET x == pitchers[id].pitches[i]
    IN /\ x.code \in KnownCodes
       /\ x.title = PITCH_META[x.code].title
       /\ x.color = PITCH_META[x.code].color

\* C22: main skips a combined row exactly when its trimmed pitcher_id is empty,
\* its trimmed pitcher_name is empty or its trimmed, upper-cased pitch_type is
\* not one of the 13 codes; a skipped row adds no record and no pitch entry,
\* every other row adds one pitch entry, and every pitch entry carries one of
\* the 13 codes with the title and color of PITCH_META for it
C22_SkippedRows ==
  /\ Cardinality(KnownCodes) = 13
  /\ []EntriesKnown
  /\ [][(pc = "rows" /\ rowIdx <= Len(combinedRows)) => RowStep(combinedRows[rowIdx])]_vars

\* the loop has skipped its first row and kept its second, whose pitch_type
\* needed trimming and upper-casing
C22_Witness ==
  /\ pc = "rows"
  /\ rowIdx = 3
  /\ StatedSkip(combinedRows[1])
  /\ ~StatedSkip(combinedRows[2])
  /\ Cell(combinedRows[2], <<"p","i","t","c","h","_","t","y","p","e">>) = <<" ","s","l">>
  /\ \E id \in DOMAIN pitchers :
       Len(pitchers[id].pitches) = 1 /\ pitchers[id].pitches[1].code = <<"S","L">>

=============================================================================
